---- MODULE Spec2Model ----
(***************************************************************************)
(* A model of blockSQP (src/external_packages/blockSQP/blocksqp.cpp):      *)
(* the dense Matrix / packed SymMatrix containers with their views, the    *)
(* SQPiterate constructor and the conversion of the block Hessian to the   *)
(* column-compressed format.                                               *)
(*                                                                         *)
(* The containers are modelled over an explicit heap of storage blocks: a  *)
(* double* is a pair (block, offset), new[] makes a block, delete[]        *)
(* releases it.  An access outside a live block, or a delete[] of a        *)
(* pointer that is not a live block, is undefined behaviour: the model     *)
(* raises the flag ub and stops there.                                     *)
(***************************************************************************)
EXTENDS Integers, Sequences, FiniteSets, TLC

VARIABLES
  heap,    \* the storage blocks: a sequence of [len, live, data]
  mats,    \* the Matrix / SymMatrix objects, by name: [m, n, ldim, tflag, array]
  out,     \* what the last operation printed through Error: a sequence of messages
  ub,      \* TRUE once an operation had undefined behaviour
  view,    \* <<i0, j0>> since V.Submatrix( A, M, N, i0, j0 ), <<>> once A is resized or
           \* reassigned or V is made something else (history variable)
  reviewed, \* TRUE when the last operation was a Submatrix or Arraymatrix on a Matrix
           \* that was a view already (history variable)
  prob,    \* the Problemspec handed to the SQPiterate constructor
  param,   \* the SQPoptions handed to the SQPiterate constructor
  iter,    \* the SQPiterate
  pc,      \* position of the SQPiterate life cycle
  env,     \* what a caller owns: the problem it wrote and the vectors it hands over
  ret,     \* what the last call returned and wrote through its output arguments
  rest,    \* the RestorationProblem
  ls       \* the filter line search: its state and the filter of the iterate

matVars  == <<heap, mats, out, ub, view, reviewed>>
iterVars == <<prob, param, iter, pc>>
auxVars  == <<env, ret, rest, ls>>
vars     == <<heap, mats, out, ub, view, reviewed, prob, param, iter, pc, env, ret, rest, ls>>

\* the variables of the parts of the program a machine does not run
IdleAux == env = 0 /\ ret = 0 /\ rest = 0 /\ ls = 0

(***************************************************************************)
(* Bounds of the model.                                                    *)
(***************************************************************************)
\* largest row / column count of a Matrix handed to an operation
MaxDim == 2

\* largest number of elements that hold a written value at one time
MaxWritten == 1

\* largest dimension of a SymMatrix
MaxSymDim == 3

\* the values written to matrix elements
Vals == {0, 1}
\* the content of storage that was never written (indeterminate)
Uninit == 0 - 1
\* the LDIM arguments: the default -1, and one above MaxDim
LdimArgs == {0 - 1, MaxDim + 1}
\* the window origins handed to Submatrix
Origins == {0, 1}

(***************************************************************************)
(* The heap.                                                               *)
(***************************************************************************)
Null == [blk |-> 0, off |-> 0]
\* the array the caller of Arraymatrix owns and passes as ARRAY
Ext == [blk |-> 1, off |-> 0]

\* is p a pointer to an element of a live block
ValidPtr(h, p) ==
  /\ p.blk \in 1..Len(h)
  /\ h[p.blk].live
  /\ p.off \in 0..(h[p.blk].len - 1)

\* the value of every pointer into a block that was released: an invalid pointer
Dangling == [blk |-> 0 - 1, off |-> 0]

FreshBlock(len) == [len |-> len, live |-> TRUE, data |-> [k \in 0..(len - 1) |-> Uninit]]

\* the ids of the released blocks; the caller keeps the id of its own array
FreeIds(h) == {k \in 1..Len(h) : ~h[k].live /\ k # Ext.blk}

\* the id new double[len] returns
NewId(h) ==
  IF FreeIds(h) # {}
    THEN CHOOSE k \in FreeIds(h) : \A l \in FreeIds(h) : k <= l
    ELSE Len(h) + 1

\* the heap after new double[len]
NewArray(h, len) ==
  IF NewId(h) <= Len(h)
    THEN [h EXCEPT ![NewId(h)] = FreshBlock(len)]
    ELSE Append(h, FreshBlock(len))

\* delete[] p: defined only for the start of a live block; every pointer into the
\* block becomes invalid
DeleteArray(w, p) ==
  IF ValidPtr(w.heap, p) /\ p.off = 0
    THEN [w EXCEPT !.heap[p.blk] = [len |-> 0, live |-> FALSE, data |-> [k \in {} |-> Uninit]],
                   !.mats = [y \in DOMAIN @ |->
                               IF @[y].array.blk = p.blk
                                 THEN [@[y] EXCEPT !.array = Dangling] ELSE @[y]]]
    ELSE [w EXCEPT !.ub = TRUE]

\* *p = v
Store(w, p, v) ==
  IF ValidPtr(w.heap, p)
    THEN [w EXCEPT !.heap[p.blk].data[p.off] = v]
    ELSE [w EXCEPT !.ub = TRUE]

\* p + k; arithmetic on an invalid pointer yields an invalid pointer
PtrAdd(p, k) == IF p = Dangling THEN Dangling ELSE [blk |-> p.blk, off |-> p.off + k]

\* *p, for a valid p
Load(h, p) == h[p.blk].data[p.off]

(***************************************************************************)
(* Error: prints and returns (exit is commented out).                      *)
(***************************************************************************)
Error(w, F) == [w EXCEPT !.out = Append(@, F)]

(***************************************************************************)
(* Matrix.                                                                 *)
(***************************************************************************)
\* Matrix::malloc
MatrixMalloc(w, x) ==
  LET w1  == IF w.mats[x].tflag = 1
               THEN Error(w, "malloc cannot be called with Submatrix") ELSE w
      ld  == IF w1.mats[x].ldim < w1.mats[x].m THEN w1.mats[x].m ELSE w1.mats[x].ldim
      len == ld * w1.mats[x].n
  IN  IF len = 0
        THEN [w1 EXCEPT !.mats[x].ldim = ld, !.mats[x].array = Null]
        ELSE [w1 EXCEPT !.mats[x].ldim = ld,
                        !.mats[x].array = [blk |-> NewId(w1.heap), off |-> 0],
                        !.heap = NewArray(w1.heap, len)]

\* Matrix::free
MatrixFree(w, x) ==
  LET w1 == IF w.mats[x].tflag = 1
              THEN Error(w, "free cannot be called with Submatrix") ELSE w
  IN  IF w1.mats[x].array # Null THEN DeleteArray(w1, w1.mats[x].array) ELSE w1

\* the offset of element (i,j) from the object's array pointer
MatrixIndex_RowMajor(A, i, j) == j + i * A.ldim

MatrixIndex(A, i, j) == i + j * A.ldim

\* the address operator()(i,j) refers to
MatrixAt(A, i, j) == PtrAdd(A.array, MatrixIndex(A, i, j))

\* Matrix::Matrix( int M, int N, int LDIM )
MatrixCtor(w, x, M, N, LDIM) ==
  MatrixMalloc([w EXCEPT !.mats[x] =
                  [m |-> M, n |-> N, ldim |-> LDIM, tflag |-> 0, array |-> Null]], x)

\* the (i,j) the loops "for i < m, for j < n" visit, in their order
RECURSIVE LoopCells(_, _, _, _)
LoopCells(m, n, i, j) ==
  IF i >= m \/ n <= 0 THEN <<>>
  ELSE IF j >= n THEN LoopCells(m, n, i + 1, 0)
  ELSE <<<<i, j>>>> \o LoopCells(m, n, i, j + 1)

\* (*this)(i,j) = val for the cells cs, one after the other
RECURSIVE FillCells(_, _, _, _)
FillCells(w, x, cs, val) ==
  IF cs = <<>> \/ w.ub THEN w
  ELSE FillCells(Store(w, MatrixAt(w.mats[x], cs[1][1], cs[1][2]), val), x, Tail(cs), val)

\* (*this)(i,j) = A(i,j) for the cells cs, one after the other
RECURSIVE CopyCells(_, _, _, _)
CopyCells(w, x, y, cs) ==
  IF cs = <<>> \/ w.ub THEN w
  ELSE LET from == MatrixAt(w.mats[y], cs[1][1], cs[1][2])
           to   == MatrixAt(w.mats[x], cs[1][1], cs[1][2])
       IN  IF ValidPtr(w.heap, from)
             THEN CopyCells(Store(w, to, Load(w.heap, from)), x, y, Tail(cs))
             ELSE [w EXCEPT !.ub = TRUE]

\* Matrix::operator=( const Matrix &A ), this = x, A = y, x # y
MatrixAssign(w, x, y) ==
  IF w.mats[x].tflag = 0
    THEN LET w1 == MatrixFree(w, x)
             w2 == [w1 EXCEPT !.mats[x].m = w1.mats[y].m,
                              !.mats[x].n = w1.mats[y].n,
                              !.mats[x].ldim = w1.mats[y].ldim]
             w3 == MatrixMalloc(w2, x)
         IN  CopyCells(w3, x, y, LoopCells(w3.mats[x].m, w3.mats[x].n, 0, 0))
    ELSE LET w1 == IF w.mats[x].m # w.mats[y].m \/ w.mats[x].n # w.mats[y].n
                     THEN Error(w, "= operation not allowed") ELSE w
         IN  CopyCells(w1, x, y, LoopCells(w1.mats[x].m, w1.mats[x].n, 0, 0))

\* Matrix::Dimension( int M, int N, int LDIM )
MatrixDimension_NoViewCheck(w, x, M, N, LDIM) ==
  IF M # w.mats[x].m \/ N # w.mats[x].n \/ (LDIM # w.mats[x].ldim /\ LDIM # -1)
    THEN MatrixMalloc([w EXCEPT !.mats[x].m = M, !.mats[x].n = N, !.mats[x].ldim = LDIM], x)
    ELSE w

MatrixDimension(w, x, M, N, LDIM) ==
  IF M # w.mats[x].m \/ N # w.mats[x].n \/ (LDIM # w.mats[x].ldim /\ LDIM # -1)
    THEN IF w.mats[x].tflag = 1
           THEN Error(w, "Cannot set new dimension for Submatrix")
           ELSE LET w1 == MatrixFree(w, x)
                    w2 == [w1 EXCEPT !.mats[x].m = M, !.mats[x].n = N, !.mats[x].ldim = LDIM]
                IN  MatrixMalloc(w2, x)
    ELSE w

\* Matrix::Initialize( double val )
MatrixInitialize(w, x, val) ==
  FillCells(w, x, LoopCells(w.mats[x].m, w.mats[x].n, 0, 0), val)

\* Matrix::Submatrix( const Matrix &A, int M, int N, int i0, int j0 ), this = x, A = y
MatrixSubmatrix_OwnStride(w, x, y, M, N, i0, j0) ==
  LET A  == w.mats[y]
      w1 == IF i0 + M > A.m \/ j0 + N > A.n THEN Error(w, "Cannot create Submatrix") ELSE w
      w2 == IF w1.mats[x].tflag = 0 THEN MatrixFree(w1, x) ELSE w1
  IN  [w2 EXCEPT !.mats[x] =
         [m |-> M, n |-> N, ldim |-> M, tflag |-> 1,
          array |-> PtrAdd(w2.mats[y].array, i0 + j0 * A.ldim)]]

MatrixSubmatrix(w, x, y, M, N, i0, j0) ==
  LET A  == w.mats[y]
      w1 == IF i0 + M > A.m \/ j0 + N > A.n THEN Error(w, "Cannot create Submatrix") ELSE w
      w2 == IF w1.mats[x].tflag = 0 THEN MatrixFree(w1, x) ELSE w1
  IN  [w2 EXCEPT !.mats[x] =
         [m |-> M, n |-> N, ldim |-> A.ldim, tflag |-> 1,
          array |-> PtrAdd(w2.mats[y].array, i0 + j0 * A.ldim)]]

\* Matrix::Arraymatrix( int M, int N, double *ARRAY, int LDIM )
MatrixArraymatrix_Refuse(w, x, M, N, ARRAY, LDIM) ==
  IF w.mats[x].tflag = 1
    THEN Error(w, "Arraymatrix cannot be called with Submatrix")
    ELSE LET w1 == MatrixFree(w, x)
         IN  [w1 EXCEPT !.mats[x] =
                [m |-> M, n |-> N, ldim |-> IF LDIM < M THEN M ELSE LDIM, tflag |-> 1,
                 array |-> ARRAY]]

MatrixArraymatrix(w, x, M, N, ARRAY, LDIM) ==
  LET w1 == IF w.mats[x].tflag = 0 THEN MatrixFree(w, x) ELSE w
  IN  [w1 EXCEPT !.mats[x] =
         [m |-> M, n |-> N, ldim |-> IF LDIM < M THEN M ELSE LDIM, tflag |-> 1,
          array |-> ARRAY]]

(***************************************************************************)
(* The Matrix machine: the caller's array and two Matrix objects.  A is    *)
(* the parent: it owns its storage, and is resized, written, initialised   *)
(* and assigned to.  V is the object that is made a view, of A (Submatrix) *)
(* or of the caller's array (Arraymatrix); it is resized and re-viewed in  *)
(* every state, and its elements are written while it is a view of A.      *)
(***************************************************************************)
Mats == {"A", "V"}
\* the row counts and the column counts handed to the operations
Rows == 0..MaxDim
Cols == 1..MaxDim
\* the length of the caller's array
ExtLen == MaxDim

\* the number of elements of the blocks 1..k of h, D's block left out, that hold a
\* written value
RECURSIVE Written(_, _, _)
Written(h, k, D) ==
  IF k = 0 THEN 0
  ELSE Written(h, k - 1, D)
         + (IF k = D THEN 0
            ELSE Cardinality({c \in DOMAIN h[k].data : h[k].data[c] # Uninit}))

\* may the client's write that leads to heap g happen: it leaves MaxWritten written
\* elements at most
WriteAllowed(g, D) == Written(g, Len(g), D) <= MaxWritten

World == [heap |-> heap, mats |-> mats, out |-> <<>>, ub |-> ub]

\* the state after a handler that ended in world w
Commit(w) ==
  /\ heap' = w.heap
  /\ mats' = w.mats
  /\ ub' = w.ub
  /\ out' = w.out

InitMat ==
  /\ \E MA \in Rows, NA \in Cols, LA \in LdimArgs, MV \in Rows, NV \in Cols :
       LET w0 == [heap |-> <<FreshBlock(ExtLen)>>,
                  mats |-> [x \in Mats |-> [m |-> 0, n |-> 0, ldim |-> 0, tflag |-> 0,
                                            array |-> Null]],
                  out |-> <<>>, ub |-> FALSE]
           w1 == MatrixCtor(w0, "A", MA, NA, LA)
           w2 == MatrixCtor(w1, "V", MV, NV, -1)
       IN  /\ heap = w2.heap
           /\ mats = w2.mats
           /\ ub = w2.ub
  /\ out = <<>>
  /\ view = <<>>
  /\ reviewed = FALSE
  /\ prob = 0 /\ param = 0 /\ iter = 0 /\ pc = "unused"
  /\ IdleAux

\* does A.Dimension( M, N, LDIM ) ask for other dimensions than A has
Resizes(A, M, N, LDIM) == M # A.m \/ N # A.n \/ (LDIM # A.ldim /\ LDIM # -1)

\* x.Dimension( M, N, LDIM )
DoDimension(x, M, N, LDIM) ==
  /\ ~ub
  /\ Commit(MatrixDimension(World, x, M, N, LDIM))
  /\ view' = IF x = "A" /\ Resizes(mats[x], M, N, LDIM) THEN <<>> ELSE view
  /\ reviewed' = FALSE
  /\ UNCHANGED <<iterVars, auxVars>>

\* x(i,j) = v for a valid (i,j)
DoWrite(x, i, j, v) ==
  /\ ~ub
  /\ x = "V" => mats[x].tflag = 1 /\ mats[x].array.blk = mats["A"].array.blk
  /\ i \in 0..(mats[x].m - 1)
  /\ j \in 0..(mats[x].n - 1)
  /\ LET w == Store(World, MatrixAt(mats[x], i, j), v)
     IN  /\ WriteAllowed(w.heap, 0)
         /\ Commit(w)
  /\ view' = view
  /\ reviewed' = FALSE
  /\ UNCHANGED <<iterVars, auxVars>>

\* V.Submatrix( A, M, N, i0, j0 )
DoSubmatrix(M, N, i0, j0) ==
  /\ ~ub
  /\ Commit(MatrixSubmatrix(World, "V", "A", M, N, i0, j0))
  /\ view' = <<i0, j0>>
  /\ reviewed' = (mats["V"].tflag = 1)
  /\ UNCHANGED <<iterVars, auxVars>>

\* V.Arraymatrix( M, N, ARRAY, LDIM ); the caller's array holds LDIM*N elements at least
DoArraymatrix(M, N, LDIM) ==
  /\ ~ub
  /\ (IF LDIM < M THEN M ELSE LDIM) * N <= ExtLen
  /\ Commit(MatrixArraymatrix(World, "V", M, N, Ext, LDIM))
  /\ view' = <<>>
  /\ reviewed' = (mats["V"].tflag = 1)
  /\ UNCHANGED <<iterVars, auxVars>>

\* A = V
DoAssign ==
  /\ ~ub
  /\ Commit(MatrixAssign(World, "A", "V"))
  /\ view' = <<>>
  /\ reviewed' = FALSE
  /\ UNCHANGED <<iterVars, auxVars>>

NextMat ==
  \/ \E x \in Mats, M \in Rows, N \in Cols, LDIM \in LdimArgs : DoDimension(x, M, N, LDIM)
  \/ \E x \in Mats, i \in 0..(MaxDim - 1), j \in 0..(MaxDim - 1), v \in Vals : DoWrite(x, i, j, v)
  \/ \E M \in Rows, N \in Cols, i0 \in Origins, j0 \in Origins : DoSubmatrix(M, N, i0, j0)
  \/ \E M \in Rows, N \in Cols, LDIM \in LdimArgs : DoArraymatrix(M, N, LDIM)
  \/ DoAssign

SpecMat == InitMat /\ [][NextMat]_vars

(***************************************************************************)
(* Properties of Matrix.                                                   *)
(***************************************************************************)
\* the valid (i,j) of A
ValidIdx(A) == (0..(A.m - 1)) \X (0..(A.n - 1))

\* C1: in a Matrix that owns its storage, ldim >= m, the offset i + j*ldim of every
\* valid (i,j) lies inside the allocated ldim*n elements, and writing v at (i,j)
\* makes a read of (i,j) return v and changes no other valid element.
C1_WriteThenRead ==
  \A x \in Mats :
    (~ub /\ mats[x].tflag = 0) =>
      /\ mats[x].ldim >= mats[x].m
      /\ \A c \in ValidIdx(mats[x]) :
           LET p == MatrixAt(mats[x], c[1], c[2])
           IN  /\ MatrixIndex(mats[x], c[1], c[2]) \in 0..(mats[x].ldim * mats[x].n - 1)
               /\ ValidPtr(heap, p)
               /\ heap[p.blk].len = mats[x].ldim * mats[x].n
      /\ \A c \in ValidIdx(mats[x]), v \in Vals :
           LET p == MatrixAt(mats[x], c[1], c[2])
               w == Store(World, p, v)
           IN  /\ ~w.ub
               /\ Load(w.heap, p) = v
               /\ \A d \in ValidIdx(mats[x]) \ {c} :
                    Load(w.heap, MatrixAt(mats[x], d[1], d[2]))
                      = Load(heap, MatrixAt(mats[x], d[1], d[2]))

\* an owning A with padding rows (ldim > m) whose element (1,1) was written
C1_Witness ==
  /\ ~ub
  /\ mats["A"].tflag = 0
  /\ mats["A"].m = 2 /\ mats["A"].n = 2 /\ mats["A"].ldim > 2
  /\ Load(heap, MatrixAt(mats["A"], 1, 1)) = 1

\* C2: after V.Submatrix( A, M, N, i0, j0 ) with the window inside A, and while A
\* is not resized or reassigned, V(i,j) and A(i0+i, j0+j) are the same element: they
\* read the same value, and a value written through one is read through the other.
C2_ViewAliasesParent ==
  (~ub /\ view # <<>> /\ view[1] + mats["V"].m <= mats["A"].m
       /\ view[2] + mats["V"].n <= mats["A"].n) =>
    \A c \in ValidIdx(mats["V"]) :
      LET pv == MatrixAt(mats["V"], c[1], c[2])
          pa == MatrixAt(mats["A"], view[1] + c[1], view[2] + c[2])
      IN  /\ ValidPtr(heap, pv)
          /\ ValidPtr(heap, pa)
          /\ Load(heap, pv) = Load(heap, pa)
          /\ \A v \in Vals :
               /\ Load(Store(World, pv, v).heap, pa) = v
               /\ Load(Store(World, pa, v).heap, pv) = v

\* V is the 1 x 1 window of a 2 x 2 A at (1,1) and the element holds a written value
C2_Witness ==
  /\ ~ub
  /\ view = <<1, 1>>
  /\ mats["V"].m = 1 /\ mats["V"].n = 1
  /\ mats["A"].m = 2 /\ mats["A"].n = 2 /\ mats["A"].ldim > 2
  /\ Load(heap, MatrixAt(mats["A"], 1, 1)) = 1

\* C5: Dimension with other dimensions on a view reports an error and changes
\* neither the view (m, n, ldim, array) nor any storage.
C5_ViewDimensionFails ==
  \A x \in Mats, M \in Rows, N \in Cols, LDIM \in LdimArgs :
    (~ub /\ mats[x].tflag = 1 /\ Resizes(mats[x], M, N, LDIM)) =>
      LET w == MatrixDimension(World, x, M, N, LDIM)
      IN  /\ w.out # <<>>
          /\ w.mats = mats
          /\ w.heap = heap
          /\ ~w.ub

\* Dimension has just failed on the view V of A
C5_Witness ==
  /\ ~ub
  /\ out = <<"Cannot set new dimension for Submatrix">>
  /\ mats["V"].tflag = 1
  /\ view # <<>>
\* C6 as claimed: Submatrix and Arraymatrix on a Matrix that is a view already report
\* an error.
C6_ReviewReported ==
  (~ub /\ mats["V"].tflag = 1) =>
    /\ \A M \in Rows, N \in Cols, i0 \in Origins, j0 \in Origins :
         MatrixSubmatrix(World, "V", "A", M, N, i0, j0).out # <<>>
    /\ \A M \in Rows, N \in Cols, LDIM \in LdimArgs :
         MatrixArraymatrix(World, "V", M, N, Ext, LDIM).out # <<>>

\* C6 as amended: Arraymatrix, and Submatrix with a window inside the parent, on a
\* Matrix that is a view already print nothing, release and change no storage and
\* re-alias the receiver: its elements are those of the new array, or of the window.
C6_ReviewRealiases ==
  (~ub /\ mats["V"].tflag = 1) =>
    /\ \A M \in Rows, N \in Cols, LDIM \in LdimArgs :
         LET w == MatrixArraymatrix(World, "V", M, N, Ext, LDIM)
             L == IF LDIM < M THEN M ELSE LDIM
         IN  /\ w.out = <<>> /\ ~w.ub /\ w.heap = heap /\ w.mats["A"] = mats["A"]
             /\ w.mats["V"].m = M /\ w.mats["V"].n = N /\ w.mats["V"].tflag = 1
             /\ \A i \in 0..(M - 1), j \in 0..(N - 1) :
                  MatrixAt(w.mats["V"], i, j) = PtrAdd(Ext, i + j * L)
    /\ \A M \in Rows, N \in Cols, i0 \in Origins, j0 \in Origins :
         (i0 + M <= mats["A"].m /\ j0 + N <= mats["A"].n) =>
           LET w == MatrixSubmatrix(World, "V", "A", M, N, i0, j0)
           IN  /\ w.out = <<>> /\ ~w.ub /\ w.heap = heap /\ w.mats["A"] = mats["A"]
               /\ w.mats["V"].m = M /\ w.mats["V"].n = N /\ w.mats["V"].tflag = 1
               /\ \A i \in 0..(M - 1), j \in 0..(N - 1) :
                    MatrixAt(w.mats["V"], i, j) = MatrixAt(mats["A"], i0 + i, j0 + j)

\* V, a view already, has just been made the window at (1,1) of A, and nothing was printed
C6_Witness ==
  /\ ~ub
  /\ reviewed
  /\ view = <<1, 1>>
  /\ mats["V"].m = 1 /\ mats["V"].n = 1 /\ mats["A"].m = 2 /\ mats["A"].n = 2
  /\ out = <<>>

\* C24: a view never refers to storage its parent has released: whatever was done
\* to A since V.Submatrix( A, ... ), V still points into the live storage of A.
C24_ViewStorageLive ==
  (mats["V"].tflag = 1 /\ mats["V"].array.blk # Ext.blk) =>
    \/ mats["V"].array.blk = Null.blk /\ mats["A"].array = Null
    \/ /\ mats["V"].array.blk = mats["A"].array.blk
       /\ mats["V"].array.blk \in 1 .. Len(heap)
       /\ heap[mats["V"].array.blk].live

\* C25: V.Submatrix( A, M, N, i0, j0 ) with a window that exceeds A reports an error
\* and creates no view: V and the storage are as before; and every view of A lies
\* inside the m x n extent of A.
C25_NoViewOutsideParent ==
  /\ [][(out' # out /\ \E k \in DOMAIN out' : out'[k] = "Cannot create Submatrix") =>
          (mats'["V"] = mats["V"] /\ heap' = heap)]_vars
  /\ [](view # <<>> =>
          /\ view[1] + mats["V"].m <= mats["A"].m
          /\ view[2] + mats["V"].n <= mats["A"].n)

(***************************************************************************)
(* SymMatrix: the lower triangle, column by column, in m(m+1)/2 elements.  *)
(***************************************************************************)
\* (int) (t / 2.0): the conversion truncates towards zero
TruncHalf(t) == IF t >= 0 THEN t \div 2 ELSE 0 - ((0 - t) \div 2)

\* len = m*(m+1)/2.0
SymLen(m) == TruncHalf(m * (m + 1))

SymMatrixMalloc(w, x) ==
  LET len == SymLen(w.mats[x].m)
  IN  IF len = 0
        THEN [w EXCEPT !.mats[x].array = Null]
        ELSE [w EXCEPT !.mats[x].array = [blk |-> NewId(w.heap), off |-> 0],
                       !.heap = NewArray(w.heap, len)]

SymMatrixFree(w, x) ==
  IF w.mats[x].array # Null THEN DeleteArray(w, w.mats[x].array) ELSE w

\* pos of operator()(i,j): j + i*(m - (i+1.0)/2.0) above the diagonal,
\* i + j*(m - (j+1.0)/2.0) on and below it
SymMatrixIndex_OneBranch(A, i, j) == TruncHalf(2 * i + j * (2 * A.m - (j + 1)))

SymMatrixIndex_RowStride(A, i, j) ==
  IF i < j
    THEN TruncHalf(2 * (j + i * A.m))
    ELSE TruncHalf(2 * (i + j * A.m))

SymMatrixIndex(A, i, j) ==
  IF i < j
    THEN TruncHalf(2 * j + i * (2 * A.m - (i + 1)))
    ELSE TruncHalf(2 * i + j * (2 * A.m - (j + 1)))

\* the address operator()(i,j) refers to
SymMatrixAt(A, i, j) == PtrAdd(A.array, SymMatrixIndex(A, i, j))

\* the (i,j) the loops "for j < m, for i = j .. n-1" visit, in their order
RECURSIVE LowerCells(_, _, _, _)
LowerCells(m, n, j, i) ==
  IF j >= m THEN <<>>
  ELSE IF i >= n THEN LowerCells(m, n, j + 1, j + 1)
  ELSE <<<<i, j>>>> \o LowerCells(m, n, j, i + 1)

\* (*this)(i,j) = val for the cells cs, one after the other
RECURSIVE SymFillCells(_, _, _, _)
SymFillCells(w, x, cs, val) ==
  IF cs = <<>> \/ w.ub THEN w
  ELSE SymFillCells(Store(w, SymMatrixAt(w.mats[x], cs[1][1], cs[1][2]), val), x, Tail(cs), val)

\* (*this)(i,j) = A(i,j) for the cells cs, one after the other; A = y is a Matrix
RECURSIVE SymCopyCells(_, _, _, _)
SymCopyCells(w, x, y, cs) ==
  IF cs = <<>> \/ w.ub THEN w
  ELSE LET from == MatrixAt(w.mats[y], cs[1][1], cs[1][2])
           to   == SymMatrixAt(w.mats[x], cs[1][1], cs[1][2])
       IN  IF ValidPtr(w.heap, from)
             THEN SymCopyCells(Store(w, to, Load(w.heap, from)), x, y, Tail(cs))
             ELSE [w EXCEPT !.ub = TRUE]

\* SymMatrix::SymMatrix( int M )
SymMatrixCtor(w, x, M) ==
  SymMatrixMalloc([w EXCEPT !.mats[x] =
                     [m |-> M, n |-> M, ldim |-> M, tflag |-> 0, array |-> Null]], x)

\* SymMatrix::SymMatrix( const Matrix &A ), A = y
SymMatrixFromMatrix(w, x, y) ==
  LET M  == w.mats[y].m
      w1 == SymMatrixMalloc([w EXCEPT !.mats[x] =
                               [m |-> M, n |-> M, ldim |-> M, tflag |-> 0, array |-> Null]], x)
  IN  SymCopyCells(w1, x, y, LowerCells(M, M, 0, 0))

\* SymMatrix::~SymMatrix
SymMatrixDtor(w, x) == IF w.mats[x].tflag = 0 THEN SymMatrixFree(w, x) ELSE w

\* SymMatrix::Dimension( int M ): free() whatever tflag is, then malloc()
SymMatrixDimension(w, x, M) ==
  LET w1 == SymMatrixFree(w, x)
  IN  SymMatrixMalloc([w1 EXCEPT !.mats[x].m = M, !.mats[x].n = M, !.mats[x].ldim = M], x)

\* SymMatrix::Initialize( double val )
SymMatrixInitialize(w, x, val) ==
  SymFillCells(w, x, LowerCells(w.mats[x].m, w.mats[x].n, 0, 0), val)

\* SymMatrix::Arraymatrix( int M, double *ARRAY )
SymMatrixArraymatrix(w, x, M, ARRAY) ==
  LET w1 == IF w.mats[x].tflag = 0 THEN SymMatrixFree(w, x) ELSE w
  IN  [w1 EXCEPT !.mats[x] = [m |-> M, n |-> M, ldim |-> M, tflag |-> 1, array |-> ARRAY]]

\* the generator functions handed to Matrix::Initialize( double (*f)( int, int ) )
Generators == {"delta", "upper", "row"}

Generate(f, i, j) ==
  IF f = "delta" THEN (IF i = j THEN 1 ELSE 0)
  ELSE IF f = "upper" THEN (IF i < j THEN 1 ELSE 0)
  ELSE i % 2

\* (*this)(i,j) = f(i,j) for the cells cs, one after the other
RECURSIVE GenerateCells(_, _, _, _)
GenerateCells(w, x, cs, f) ==
  IF cs = <<>> \/ w.ub THEN w
  ELSE GenerateCells(Store(w, MatrixAt(w.mats[x], cs[1][1], cs[1][2]),
                           Generate(f, cs[1][1], cs[1][2])), x, Tail(cs), f)

\* Matrix::Initialize( double (*f)( int, int ) )
MatrixInitializeF(w, x, f) ==
  GenerateCells(w, x, LoopCells(w.mats[x].m, w.mats[x].n, 0, 0), f)

(***************************************************************************)
(* The SymMatrix machine: the caller's array, a dense square Matrix D      *)
(* filled by a generator function, and a SymMatrix S, constructed from a   *)
(* dimension or from D, then resized, initialised, written, made a view of *)
(* the caller's array, destroyed and constructed again.                    *)
(***************************************************************************)
SymDims == 0..MaxSymDim

InitSym ==
  /\ \E MD \in SymDims, f \in Generators, M \in SymDims, fromD \in BOOLEAN :
       LET w0 == [heap |-> <<FreshBlock(SymLen(MaxSymDim))>>,
                  mats |-> [x \in {"S", "D"} |-> [m |-> 0, n |-> 0, ldim |-> 0, tflag |-> 0,
                                                  array |-> Null]],
                  out |-> <<>>, ub |-> FALSE]
           w1 == MatrixInitializeF(MatrixCtor(w0, "D", MD, MD, -1), "D", f)
           w2 == IF fromD THEN SymMatrixFromMatrix(w1, "S", "D") ELSE SymMatrixCtor(w1, "S", M)
       IN  /\ heap = w2.heap
           /\ mats = w2.mats
           /\ ub = w2.ub
  /\ out = <<>>
  /\ view = <<>>
  /\ reviewed = FALSE
  /\ prob = 0 /\ param = 0 /\ iter = 0 /\ pc = "unused"
  /\ IdleAux

\* S.Dimension( M )
DoSymDimension(M) ==
  /\ ~ub
  /\ Commit(SymMatrixDimension(World, "S", M))
  /\ UNCHANGED <<view, reviewed, iterVars, auxVars>>

\* S.Initialize( val )
DoSymInitialize(val) ==
  /\ ~ub
  /\ Commit(SymMatrixInitialize(World, "S", val))
  /\ UNCHANGED <<view, reviewed, iterVars, auxVars>>

\* S(i,j) = v for a valid (i,j)
DoSymWrite(i, j, v) ==
  /\ ~ub
  /\ i \in 0..(mats["S"].m - 1)
  /\ j \in 0..(mats["S"].m - 1)
  /\ LET w == Store(World, SymMatrixAt(mats["S"], i, j), v)
     IN  /\ WriteAllowed(w.heap, mats["D"].array.blk)
         /\ Commit(w)
  /\ UNCHANGED <<view, reviewed, iterVars, auxVars>>

\* S.Arraymatrix( M, ARRAY ) with the caller's array, which the caller believes to hold
DoSymArraymatrix(M) ==
  /\ ~ub
  /\ heap[Ext.blk].live
  /\ Commit(SymMatrixArraymatrix(World, "S", M, Ext))
  /\ UNCHANGED <<view, reviewed, iterVars, auxVars>>

\* S is destroyed, and constructed again: SymMatrix( M ) or SymMatrix( D )
DoSymConstruct(M, fromD) ==
  /\ ~ub
  /\ LET w1 == SymMatrixDtor(World, "S")
     IN  Commit(IF fromD THEN SymMatrixFromMatrix(w1, "S", "D") ELSE SymMatrixCtor(w1, "S", M))
  /\ UNCHANGED <<view, reviewed, iterVars, auxVars>>

NextSym ==
  \/ \E M \in SymDims : DoSymDimension(M)
  \/ \E val \in Vals : DoSymInitialize(val)
  \/ \E i \in 0..(MaxSymDim - 1), j \in 0..(MaxSymDim - 1), v \in Vals : DoSymWrite(i, j, v)
  \/ \E M \in SymDims : DoSymArraymatrix(M)
  \/ \E M \in SymDims, fromD \in BOOLEAN : DoSymConstruct(M, fromD)

SpecSym == InitSym /\ [][NextSym]_vars

(***************************************************************************)
(* Properties of SymMatrix.                                                *)
(***************************************************************************)
\* the valid (i,j) of the SymMatrix A
SymIdx(A) == (0..(A.m - 1)) \X (0..(A.m - 1))

\* C3: in every SymMatrix, built from a dimension or from a dense Matrix, (i,j) and
\* (j,i) read the same value, and a value written to one is read from the other.
C3_SymmetricRead ==
  ~ub =>
    \A c \in SymIdx(mats["S"]) :
      LET p == SymMatrixAt(mats["S"], c[1], c[2])
          q == SymMatrixAt(mats["S"], c[2], c[1])
      IN  /\ ValidPtr(heap, p)
          /\ ValidPtr(heap, q)
          /\ Load(heap, p) = Load(heap, q)
          /\ \A v \in Vals : Load(Store(World, p, v).heap, q) = v

\* S was built from the dense D = Initialize( "row" ), which is not symmetric, and holds
\* D's lower triangle
C3_Witness ==
  /\ ~ub
  /\ mats["S"].m = 3 /\ mats["S"].tflag = 0 /\ mats["D"].m = 3
  /\ Load(heap, MatrixAt(mats["D"], 0, 1)) = 0
  /\ Load(heap, MatrixAt(mats["D"], 1, 0)) = 1
  /\ Load(heap, SymMatrixAt(mats["S"], 1, 0)) = 1
  /\ Load(heap, SymMatrixAt(mats["S"], 0, 1)) = 1
  /\ Load(heap, SymMatrixAt(mats["S"], 2, 1)) = 0

\* C4: the index maps the unordered pairs {i,j}, 0 <= i,j < m, one-to-one onto the slots
\* 0 .. m(m+1)/2 - 1 of the packed array, which is as long as that when S allocated
\* it, and a write to (i,j) changes no element but (i,j) and (j,i).
C4_IndexBijection ==
  ~ub =>
    LET S == mats["S"]
    IN  /\ \A c \in SymIdx(S) :
             /\ SymMatrixIndex(S, c[1], c[2]) \in 0..(SymLen(S.m) - 1)
             /\ ValidPtr(heap, SymMatrixAt(S, c[1], c[2]))
        /\ (S.tflag = 0 /\ S.array # Null) => heap[S.array.blk].len = SymLen(S.m)
        /\ {SymMatrixIndex(S, c[1], c[2]) : c \in SymIdx(S)} = 0..(SymLen(S.m) - 1)
        /\ \A c \in SymIdx(S), d \in SymIdx(S) :
             {c[1], c[2]} # {d[1], d[2]} =>
               /\ SymMatrixIndex(S, c[1], c[2]) # SymMatrixIndex(S, d[1], d[2])
               /\ \A v \in Vals :
                    Load(Store(World, SymMatrixAt(S, c[1], c[2]), v).heap,
                         SymMatrixAt(S, d[1], d[2]))
                      = Load(heap, SymMatrixAt(S, d[1], d[2]))

\* S owns a 3 x 3 array of which (2,1) was written and (2,2), (1,1) were not
C4_Witness ==
  /\ ~ub
  /\ mats["S"].m = 3 /\ mats["S"].tflag = 0
  /\ Load(heap, SymMatrixAt(mats["S"], 2, 1)) = 1
  /\ Load(heap, SymMatrixAt(mats["S"], 2, 2)) = Uninit
  /\ Load(heap, SymMatrixAt(mats["S"], 1, 1)) = Uninit

\* C7: a step S.Dimension( M ) on a SymMatrix that is a view reports an error, releases
\* and changes no storage and leaves the view as it is.
C7_SymViewDimensionFails ==
  [][\A M \in SymDims :
       (mats["S"].tflag = 1 /\ M # mats["S"].m /\ DoSymDimension(M)) =>
         /\ out' # <<>>
         /\ heap' = heap
         /\ mats' = mats]_vars

(***************************************************************************)
(* SQPiterate: the constructor.                                            *)
(* An int[] or double[] of the iterate is a function on 0 .. len-1, so     *)
(* that the model keeps the indices of the source.  A Matrix member of     *)
(* the iterate is kept by its dimensions: every one is filled with one     *)
(* value when it is allocated.                                             *)
(***************************************************************************)
\* largest number of variables of a problem
MaxVar == 3

\* the values of hessMemsize a caller sets: 0 asks the constructor to choose
MemSizes == {0, 2}

\* new T[len], every element val
NewArr(len, val) == [k \in 0 .. len - 1 |-> val]

\* a pointer that is 0, and an array that new[] returned
NullArr == [alloc |-> FALSE, data |-> <<>>]
Alloc(a) == [alloc |-> TRUE, data |-> a]

\* Matrix::Dimension( M, N ).Initialize( val ) of a member
Member(M, N, val) == [m |-> M, n |-> N, val |-> val]

\* how the constructor partitions the variables
Strategy(pb, pm) ==
  IF pm.blockHess = 0 \/ pb.nBlocks = 1 THEN "single"
  ELSE IF pm.blockHess = 2 /\ pb.nBlocks > 1 THEN "hybrid"
  ELSE "problem"

\* the hybrid partition with the last boundary of the problem in the middle
BlockPartition_LastBoundary(pb, pm) ==
  IF Strategy(pb, pm) = "single"
    THEN [nBlocks |-> 1, blockIdx |-> (0 :> 0) @@ (1 :> pb.nVar)]
    ELSE IF Strategy(pb, pm) = "hybrid"
      THEN [nBlocks |-> 2,
            blockIdx |-> (0 :> 0) @@ (1 :> pb.blockIdx[pb.nBlocks]) @@ (2 :> pb.nVar)]
      ELSE [nBlocks |-> pb.nBlocks,
            blockIdx |-> [k \in 0 .. pb.nBlocks |-> pb.blockIdx[k]]]

\* nBlocks and blockIdx as the constructor sets them
BlockPartition(pb, pm) ==
  IF Strategy(pb, pm) = "single"
    THEN [nBlocks |-> 1, blockIdx |-> (0 :> 0) @@ (1 :> pb.nVar)]
    ELSE IF Strategy(pb, pm) = "hybrid"
      THEN [nBlocks |-> 2,
            blockIdx |-> (0 :> 0) @@ (1 :> pb.blockIdx[pb.nBlocks - 1]) @@ (2 :> pb.nVar)]
      ELSE [nBlocks |-> pb.nBlocks,
            blockIdx |-> [k \in 0 .. pb.nBlocks |-> pb.blockIdx[k]]]

\* the loop of the third strategy: the largest block seen up to boundary k, from 1
RECURSIVE MaxBlockScan(_, _, _)
MaxBlockScan(idx, k, mx) ==
  IF k = 0 THEN mx
  ELSE LET prev == MaxBlockScan(idx, k - 1, mx)
       IN  IF idx[k] - idx[k - 1] > prev THEN idx[k] - idx[k - 1] ELSE prev

\* maxblocksize were it also updated in the hybrid branch
MaxBlockSize_Partition(pb, pm) ==
  MaxBlockScan(BlockPartition(pb, pm).blockIdx, BlockPartition(pb, pm).nBlocks, 1)

\* maxblocksize at the end of the three branches
MaxBlockSize(pb, pm) ==
  IF Strategy(pb, pm) = "single" THEN pb.nVar
  ELSE IF Strategy(pb, pm) = "hybrid" THEN 1
  ELSE MaxBlockScan(pb.blockIdx, pb.nBlocks, 1)

\* a constructor that also records the single strategy in blockHess
CtorParam_WritesBlockHess(pb, pm) ==
  LET p1 == IF Strategy(pb, pm) = "single"
              THEN [pm EXCEPT !.whichSecondDerv = 0, !.blockHess = 0] ELSE pm
  IN  IF p1.hessLimMem = 1 /\ p1.hessMemsize = 0
        THEN [p1 EXCEPT !.hessMemsize = MaxBlockSize(pb, pm)]
        ELSE p1

\* the options after the constructor: it writes whichSecondDerv and hessMemsize
CtorParam(pb, pm) ==
  LET p1 == IF Strategy(pb, pm) = "single" THEN [pm EXCEPT !.whichSecondDerv = 0] ELSE pm
  IN  IF p1.hessLimMem = 1 /\ p1.hessMemsize = 0
        THEN [p1 EXCEPT !.hessMemsize = MaxBlockSize(pb, pm)]
        ELSE p1

\* a SymMatrix of the block Hessian: Dimension( varDim ).Initialize( 0.0 )
HessBlock(varDim) ==
  [m |-> varDim, n |-> varDim, data |-> NewArr(SymLen(varDim), 0)]

\* SQPiterate::allocHess: new SymMatrix[nBlocks], every block zero
AllocHess(part) ==
  [iBlock \in 0 .. part.nBlocks - 1 |->
     HessBlock(part.blockIdx[iBlock + 1] - part.blockIdx[iBlock])]

\* allocMin with one multiplier for each variable and none for the constraints
AllocMin_VarsOnly(pb) ==
  [xi           |-> Member(pb.nVar, 1, 0),
   lambda       |-> Member(pb.nVar, 1, 0),
   constr       |-> Member(pb.nCon, 1, 0),
   gradObj      |-> Member(pb.nVar, 1, 0),
   gradLagrange |-> Member(pb.nVar, 1, 0)]

\* SQPiterate::allocMin
AllocMin(pb) ==
  [xi           |-> Member(pb.nVar, 1, 0),
   lambda       |-> Member(pb.nVar + pb.nCon, 1, 0),
   constr       |-> Member(pb.nCon, 1, 0),
   gradObj      |-> Member(pb.nVar, 1, 0),
   gradLagrange |-> Member(pb.nVar, 1, 0)]

\* SQPiterate::SQPiterate( prob, param, full ): the iterate it leaves
SQPiterateCtor(pb, pm, full) ==
  LET part == BlockPartition(pb, pm)
      pm1  == CtorParam(pb, pm)
      two  == pm1.hessUpdate = 1 \/ pm1.hessUpdate = 4
      min  == AllocMin(pb)
  IN  [nBlocks      |-> part.nBlocks,
       blockIdx     |-> part.blockIdx,
       xi           |-> min.xi,
       lambda       |-> min.lambda,
       constr       |-> min.constr,
       gradObj      |-> min.gradObj,
       gradLagrange |-> min.gradLagrange,
       constrJac    |-> IF pm1.sparseQP = 0 THEN Member(pb.nCon, pb.nVar, 0)
                                            ELSE Member(0, 0, 0),
       hessNz       |-> IF pm1.sparseQP = 0 THEN Alloc(NewArr(pb.nVar * pb.nVar, Uninit))
                                            ELSE NullArr,
       hessIndRow   |-> NullArr,
       hessIndCol   |-> 0,
       hessIndLo    |-> 0,
       hess1        |-> IF full THEN Alloc(AllocHess(part)) ELSE NullArr,
       hess2        |-> IF full /\ two THEN Alloc(AllocHess(part)) ELSE NullArr,
       hess         |-> IF full THEN 1 ELSE 0,
       deltaMat     |-> IF full THEN Member(pb.nVar, pm1.hessMemsize, 0) ELSE Member(0, 0, 0),
       gammaMat     |-> IF full THEN Member(pb.nVar, pm1.hessMemsize, 0) ELSE Member(0, 0, 0),
       deltaH       |-> IF full THEN Member(part.nBlocks, 1, 0) ELSE Member(0, 0, 0),
       noUpdateCounter |-> IF full THEN Alloc(NewArr(part.nBlocks, 0 - 1)) ELSE NullArr,
       jacNz        |-> NullArr,
       jacIndRow    |-> NullArr,
       jacIndCol    |-> 0,
       trialXi      |-> IF full THEN Member(pb.nVar, 1, 0) ELSE Member(0, 0, 0),
       deltaBl      |-> IF full THEN Member(pb.nVar + pb.nCon, 1, 0) ELSE Member(0, 0, 0),
       deltaBu      |-> IF full THEN Member(pb.nVar + pb.nCon, 1, 0) ELSE Member(0, 0, 0),
       AdeltaXi     |-> IF full THEN Member(pb.nCon, 1, 0) ELSE Member(0, 0, 0),
       lambdaQP     |-> IF full THEN Member(pb.nVar + pb.nCon, 1, 0) ELSE Member(0, 0, 0)]

\* SQPiterate::SQPiterate( const SQPiterate &iter )
SQPiterateCopy(it) ==
  LET nVar == it.xi.m
      nnz  == IF it.jacNz.alloc THEN it.jacIndRow.data[it.jacIndCol + nVar] ELSE 0
  IN  [it EXCEPT
         !.xi = it.xi, !.lambda = it.lambda, !.constr = it.constr,
         !.gradObj = it.gradObj, !.gradLagrange = it.gradLagrange,
         !.constrJac = it.constrJac,
         !.jacNz     = IF it.jacNz.alloc THEN Alloc([p \in 0 .. nnz - 1 |-> it.jacNz.data[p]])
                                         ELSE NullArr,
         !.jacIndRow = IF it.jacNz.alloc
                         THEN Alloc([p \in 0 .. nnz + (nVar + 1) + nVar - 1 |->
                                       IF p \in DOMAIN it.jacIndRow.data
                                         THEN it.jacIndRow.data[p] ELSE Uninit])
                         ELSE NullArr,
         !.jacIndCol = IF it.jacNz.alloc THEN nnz ELSE 0,
         !.noUpdateCounter = NullArr,
         !.hessNz = NullArr, !.hessIndRow = NullArr, !.hessIndCol = 0, !.hessIndLo = 0,
         !.hess = 0, !.hess1 = NullArr, !.hess2 = NullArr,
         !.deltaMat = Member(0, 0, 0), !.gammaMat = Member(0, 0, 0),
         !.deltaH = Member(0, 0, 0), !.trialXi = Member(0, 0, 0),
         !.deltaBl = Member(0, 0, 0), !.deltaBu = Member(0, 0, 0),
         !.AdeltaXi = Member(0, 0, 0), !.lambdaQP = Member(0, 0, 0)]

(***************************************************************************)
(* The constructor as a machine: a caller makes a Problemspec and the      *)
(* SQPoptions and constructs one iterate from them.                        *)
(***************************************************************************)
\* the Problemspecs with nVar > 0 and a valid blockIdx: nBlocks + 1 boundaries,
\* strictly increasing from 0 to nVar
Problems ==
  { pb \in UNION { [nVar : {nv}, nCon : {0, 1}, nBlocks : {nb},
                    blockIdx : [0 .. nb -> 0 .. nv]] :
                   <<nv, nb>> \in (1 .. MaxVar) \X (1 .. MaxVar) } :
      /\ pb.blockIdx[0] = 0
      /\ pb.blockIdx[pb.nBlocks] = pb.nVar
      /\ \A k \in 1 .. pb.nBlocks : pb.blockIdx[k - 1] < pb.blockIdx[k] }

\* SQPoptions::SQPoptions: the defaults of the options that are integers and that
\* the model reads (thetaMax = 1.0e7 is one)
SQPoptionsCtor ==
  [sparseQP |-> 2, globalization |-> 1, restoreFeas |-> 1, blockHess |-> 1,
   whichSecondDerv |-> 0, hessScaling |-> 2, fallbackScaling |-> 4,
   hessUpdate |-> 1, fallbackUpdate |-> 2, hessLimMem |-> 1, hessMemsize |-> 20,
   maxLineSearch |-> 20, maxConsecReducedSteps |-> 100, maxSOCiter |-> 3,
   thetaMax |-> 10 ^ 7]

\* optionsConsistency that leaves the scaling alone when it replaces SR1
OptionsConsistency_KeepScaling(pm) ==
  LET p1 == IF pm.whichSecondDerv = 2 THEN [pm EXCEPT !.hessUpdate = 4, !.blockHess = 1]
                                      ELSE pm
      p2 == IF p1.hessLimMem = 0 THEN [p1 EXCEPT !.hessMemsize = 1] ELSE p1
  IN  IF p2.sparseQP # 2 /\ p2.hessUpdate = 1
        THEN [pm  |-> [p2 EXCEPT !.hessUpdate = 2],
              out |-> <<"SR1 update only works with qpOASES Schur complement version. Using BFGS updates instead.">>]
        ELSE [pm |-> p2, out |-> <<>>]

\* SQPoptions::optionsConsistency: the options it leaves and what it prints
OptionsConsistency(pm) ==
  LET p1 == IF pm.whichSecondDerv = 2 THEN [pm EXCEPT !.hessUpdate = 4, !.blockHess = 1]
                                      ELSE pm
      p2 == IF p1.hessLimMem = 0 THEN [p1 EXCEPT !.hessMemsize = 1] ELSE p1
  IN  IF p2.sparseQP # 2 /\ p2.hessUpdate = 1
        THEN [pm  |-> [p2 EXCEPT !.hessUpdate = 2, !.hessScaling = p2.fallbackScaling],
              out |-> <<"SR1 update only works with qpOASES Schur complement version. Using BFGS updates instead.">>]
        ELSE [pm |-> p2, out |-> <<>>]

\* the options after the user set some of them
Options ==
  { [SQPoptionsCtor EXCEPT !.blockHess = u.blockHess, !.hessLimMem = u.hessLimMem,
                           !.hessMemsize = u.hessMemsize, !.hessUpdate = u.hessUpdate,
                           !.sparseQP = u.sparseQP, !.whichSecondDerv = u.whichSecondDerv,
                           !.fallbackUpdate = u.fallbackUpdate,
                           !.fallbackScaling = u.fallbackScaling] :
      u \in [blockHess : {0, 1, 2}, hessLimMem : {0, 1}, hessMemsize : MemSizes,
             hessUpdate : {0, 1}, sparseQP : {0, 2}, whichSecondDerv : {0, 2},
             fallbackUpdate : {0, 2}, fallbackScaling : {0, 4}] }

InitIter ==
  /\ prob \in Problems
  /\ param \in Options
  /\ iter = NullArr
  /\ pc = <<"new">>
  /\ heap = <<>> /\ mats = <<>> /\ out = <<>> /\ ub = FALSE
  /\ view = <<>> /\ reviewed = FALSE
  /\ IdleAux

\* param->optionsConsistency(); env keeps the options as they were before the call
DoOptionsConsistency ==
  /\ pc = <<"new">>
  /\ param' = OptionsConsistency(param).pm
  /\ out' = out \o OptionsConsistency(param).out
  /\ env' = param
  /\ pc' = <<"consistent">>
  /\ UNCHANGED <<prob, iter, heap, mats, ub, view, reviewed, ret, rest, ls>>

\* iter = new SQPiterate( prob, param, full ); env keeps the options as they were
\* before the call, pc whether optionsConsistency had run
Construct(full) ==
  /\ pc[1] \in {"new", "consistent"}
  /\ iter' = SQPiterateCtor(prob, param, full)
  /\ param' = CtorParam(prob, param)
  /\ env' = param
  /\ pc' = <<"constructed", full, pc[1] = "consistent">>
  /\ UNCHANGED <<prob, matVars, ret, rest, ls>>

\* copy = new SQPiterate( *iter ); the copy takes the place of iter
CopyConstruct ==
  /\ pc[1] = "constructed"
  /\ iter' = SQPiterateCopy(iter)
  /\ pc' = <<"copied", pc[2]>>
  /\ UNCHANGED <<prob, param, matVars, auxVars>>

NextIter ==
  \/ DoOptionsConsistency
  \/ \E full \in BOOLEAN : Construct(full)
  \/ CopyConstruct

SpecIter == InitIter /\ [][NextIter]_vars

\* C8: the constructed boundary array has nBlocks+1 entries, starts at 0, ends at
\* nVar and is strictly increasing, in each of the three strategies: one block
\* (blockHess = 0 or a one-block problem), two blocks split at the problem's last
\* inner boundary (blockHess = 2, more than one block), the problem's own blocks
\* otherwise.
C8_BoundariesValid ==
  pc[1] = "constructed" =>
    /\ DOMAIN iter.blockIdx = 0 .. iter.nBlocks
    /\ iter.blockIdx[0] = 0
    /\ iter.blockIdx[iter.nBlocks] = prob.nVar
    /\ \A k \in 1 .. iter.nBlocks : iter.blockIdx[k - 1] < iter.blockIdx[k]
    /\ (param.blockHess = 0 \/ prob.nBlocks = 1) => iter.nBlocks = 1
    /\ (param.blockHess = 2 /\ prob.nBlocks > 1) =>
          /\ iter.nBlocks = 2
          /\ iter.blockIdx[1] = prob.blockIdx[prob.nBlocks - 1]
    /\ (param.blockHess = 1 /\ prob.nBlocks > 1) =>
          /\ iter.nBlocks = prob.nBlocks
          /\ iter.blockIdx = prob.blockIdx

\* the hybrid strategy has run on a problem of three blocks
C8_Witness ==
  /\ pc[1] = "constructed"
  /\ param.blockHess = 2
  /\ prob.nBlocks = 3
  /\ iter.nBlocks = 2
  /\ iter.blockIdx[1] = 2

\* C17 as stated: after optionsConsistency, whenever SR1 was selected with
\* sparseQP != 2, the update rule is fallbackUpdate and the scaling is
\* fallbackScaling; and sparseQP != 2 implies hessUpdate != 1.
C17_FallbackConfigured ==
  pc = <<"consistent">> =>
    /\ (env.hessUpdate = 1 /\ env.sparseQP # 2) =>
          /\ param.hessUpdate = env.fallbackUpdate
          /\ param.hessScaling = env.fallbackScaling
    /\ param.sparseQP # 2 => param.hessUpdate # 1

\* C17 amended: after optionsConsistency, whenever SR1 was selected with
\* sparseQP != 2 and whichSecondDerv != 2, the update rule is BFGS (2) whatever
\* fallbackUpdate is, and the scaling is fallbackScaling; with whichSecondDerv = 2
\* the update rule is 4 and the scaling is unchanged; nothing but hessUpdate,
\* hessScaling, blockHess and hessMemsize is written; and in every case
\* sparseQP != 2 implies hessUpdate != 1.
C17_FallbackIsBFGS ==
  pc = <<"consistent">> =>
    /\ (env.hessUpdate = 1 /\ env.sparseQP # 2 /\ env.whichSecondDerv # 2) =>
          /\ param.hessUpdate = 2
          /\ param.hessScaling = env.fallbackScaling
    /\ env.whichSecondDerv = 2 =>
          /\ param.hessUpdate = 4
          /\ param.hessScaling = env.hessScaling
    /\ \A f \in DOMAIN env \ {"hessUpdate", "hessScaling", "blockHess", "hessMemsize"} :
          param[f] = env[f]
    /\ param.sparseQP # 2 => param.hessUpdate # 1

\* SR1 was replaced although the configured fallback is another rule, and the
\* scaling changed with it
C17_Witness ==
  /\ pc = <<"consistent">>
  /\ env.hessUpdate = 1 /\ env.sparseQP = 0 /\ env.whichSecondDerv = 0
  /\ env.fallbackUpdate = 0 /\ env.fallbackScaling = 0
  /\ param.hessUpdate = 2 /\ param.hessScaling = 0

\* C18 as stated: once optionsConsistency has run, constructing an SQPiterate
\* leaves every option field unchanged.
C18_OptionsImmutable ==
  (pc[1] = "constructed" /\ pc[3]) => param = env

\* C18 amended: once optionsConsistency has run, constructing an SQPiterate
\* leaves every option field unchanged except whichSecondDerv, which becomes 0
\* when the iterate has a single block because blockHess is 0 or the problem has
\* one block, and hessMemsize, which becomes a block size between 1 and nVar when
\* hessLimMem is set and hessMemsize was 0.
C18_OnlyTwoFieldsWritten ==
  (pc[1] = "constructed" /\ pc[3]) =>
    /\ \A f \in DOMAIN env \ {"whichSecondDerv", "hessMemsize"} : param[f] = env[f]
    /\ param.whichSecondDerv # env.whichSecondDerv =>
          /\ param.whichSecondDerv = 0
          /\ iter.nBlocks = 1
          /\ env.blockHess = 0 \/ prob.nBlocks = 1
    /\ param.hessMemsize # env.hessMemsize =>
          /\ env.hessLimMem # 0 /\ env.hessMemsize = 0
          /\ param.hessMemsize \in 1 .. prob.nVar

\* both fields were written by the constructor of a full iterate
C18_Witness ==
  /\ pc = <<"constructed", TRUE, TRUE>>
  /\ env.whichSecondDerv = 2 /\ param.whichSecondDerv = 0
  /\ env.hessMemsize = 0 /\ param.hessMemsize = prob.nVar /\ prob.nVar > 1

\* C19: in every SQPiterate, built by the main constructor (full or minimal) or
\* by the copy constructor, lambda has length nVar + nCon; in a fully constructed
\* iterate lambdaQP, deltaBl and deltaBu have length nVar + nCon too.
C19_MultiplierLength ==
  /\ pc[1] \in {"constructed", "copied"} =>
        /\ iter.lambda.m = prob.nVar + prob.nCon
        /\ iter.lambda.n = 1
  /\ (pc[1] = "constructed" /\ pc[2]) =>
        \A v \in {iter.lambdaQP, iter.deltaBl, iter.deltaBu} :
          v.m = prob.nVar + prob.nCon /\ v.n = 1

\* a copy of a full iterate of a problem with a constraint
C19_Witness ==
  /\ pc = <<"copied", TRUE>>
  /\ prob.nCon = 1
  /\ iter.lambda.m = prob.nVar + 1
  /\ iter.xi.m = prob.nVar
  /\ iter.lambdaQP.m = 0

\* the size of the largest block of the partition the iterate holds
LargestBlock ==
  CHOOSE w \in 0 .. prob.nVar :
    /\ \E k \in 1 .. iter.nBlocks : iter.blockIdx[k] - iter.blockIdx[k - 1] = w
    /\ \A k \in 1 .. iter.nBlocks : iter.blockIdx[k] - iter.blockIdx[k - 1] <= w

\* C30: when the constructor is entered with hessLimMem set and hessMemsize 0, it
\* sets hessMemsize to the size of the largest block of the partition it built
\* (single, hybrid or problem-supplied), which is at least 1, and a full iterate
\* has deltaMat and gammaMat of nVar rows and that many columns.
C30_MemoryIsLargestBlock ==
  (pc[1] = "constructed" /\ env.hessLimMem # 0 /\ env.hessMemsize = 0) =>
    /\ LargestBlock >= 1
    /\ param.hessMemsize = LargestBlock
    /\ pc[2] => /\ iter.deltaMat.m = prob.nVar /\ iter.deltaMat.n = LargestBlock
                /\ iter.gammaMat.m = prob.nVar /\ iter.gammaMat.n = LargestBlock

\* a full iterate of the hybrid strategy, one of its two blocks larger than 1,
\* constructed with limited memory and no memory size
C30_Witness ==
  /\ pc[1] = "constructed" /\ pc[2]
  /\ env.hessLimMem # 0 /\ env.hessMemsize = 0
  /\ env.blockHess = 2 /\ prob.nBlocks > 1
  /\ iter.nBlocks = 2
  /\ LargestBlock = 2

(***************************************************************************)
(* SQPiterate::convertHessian, the sparse variant: the block Hessian to    *)
(* the column-compressed format.  hessIndRow_, hessIndCol_ and hessIndLo_  *)
(* are one int[] of nnz + (nVar+1) + nVar elements: hessIndCol_ and        *)
(* hessIndLo_ are the offsets of their parts in it.                        *)
(***************************************************************************)
\* largest number of nonzero elements the block Hessian holds at one time
MaxNonzero == 2

\* the values written into the Hessian, and the thresholds eps of a conversion
HessVals == {0 - 1, 0, 2}
EpsVals == {0, 1}

\* fabs
Fabs(v) == IF v < 0 THEN 0 - v ELSE v

\* hess_[iBlock]( i, j )
HessAt(B, i, j) == B.data[SymMatrixIndex(B, i, j)]

\* the SymMatrix array the pointer hess of the iterate points to: hess1 or hess2
HessOf(it) == IF it.hess = 1 THEN it.hess1.data ELSE it.hess2.data

\* the test without fabs
Significant_Signed(v, eps) == v > eps

\* fabs( hess_[iBlock]( i, j ) ) > eps
Significant(v, eps) == Fabs(v) > eps

\* step 1, one block: the upper triangle, off-diagonal elements count twice
CountBlock(B, eps) ==
  LET up == { c \in (0 .. B.n - 1) \X (0 .. B.n - 1) :
                c[1] <= c[2] /\ Significant(HessAt(B, c[1], c[2]), eps) }
  IN  Cardinality(up) + Cardinality({ c \in up : c[1] # c[2] })

\* step 1: nnz over the blocks iBlock .. nBlocks-1
RECURSIVE CountNnz(_, _, _, _)
CountNnz(H, iBlock, nBlocks, eps) ==
  IF iBlock >= nBlocks THEN 0
  ELSE CountBlock(H[iBlock], eps) + CountNnz(H, iBlock + 1, nBlocks, eps)

\* a[k] = v of a new[] array; outside of it the behaviour is undefined
Put(c, f, k, v) ==
  IF k \in DOMAIN c[f] THEN [c EXCEPT ![f][k] = v] ELSE [c EXCEPT !.ub = TRUE]

\* step 2, the loop over the rows j .. nRows-1 of column i of a block
RECURSIVE EmitRows(_, _, _, _, _, _)
EmitRows(c, B, i, j, rowOffset, eps) ==
  IF j >= B.m \/ c.ub THEN c
  ELSE IF Significant(HessAt(B, i, j), eps)
    THEN LET c1 == Put(c, "nz", c.count, HessAt(B, i, j))
             c2 == IF c1.ub THEN c1 ELSE Put(c1, "ind", c.count, j + rowOffset)
         IN  EmitRows([c2 EXCEPT !.count = c.count + 1], B, i, j + 1, rowOffset, eps)
    ELSE EmitRows(c, B, i, j + 1, rowOffset, eps)

\* step 2, the loop over the columns i .. nCols-1 of a block
RECURSIVE EmitCols(_, _, _, _, _)
EmitCols(c, B, i, rowOffset, eps) ==
  IF i >= B.n \/ c.ub THEN c
  ELSE LET c1 == Put(c, "ind", c.col + c.colTotal, c.count)
           c2 == EmitRows(c1, B, i, 0, rowOffset, eps)
       IN  EmitCols([c2 EXCEPT !.colTotal = c.colTotal + 1], B, i + 1, rowOffset, eps)

\* step 2, the loop over the blocks iBlock .. nBlocks-1
RECURSIVE EmitBlocks(_, _, _, _, _, _)
EmitBlocks(c, H, iBlock, nBlocks, rowOffset, eps) ==
  IF iBlock >= nBlocks \/ c.ub THEN c
  ELSE EmitBlocks(EmitCols(c, H[iBlock], 0, rowOffset, eps), H, iBlock + 1, nBlocks,
                  rowOffset + H[iBlock].m, eps)

\* the loop condition of step 3 with <= for <
LoContinues_Le(c, i, j) ==
  /\ i < c.ind[c.col + j + 1]
  /\ c.ind[i] <= j

\* step 3, the loop condition: i < hessIndCol_[j+1] && hessIndRow_[i] < j
LoContinues(c, i, j) ==
  /\ i < c.ind[c.col + j + 1]
  /\ c.ind[i] < j

\* step 3, the empty loop over i of column j
RECURSIVE LoScan(_, _, _)
LoScan(c, i, j) ==
  IF i \in DOMAIN c.ind /\ LoContinues(c, i, j) THEN LoScan(c, i + 1, j) ELSE i

\* step 3, the loop over the columns j .. nVar-1
RECURSIVE SetLo(_, _, _)
SetLo(c, j, nVar) ==
  IF j >= nVar \/ c.ub THEN c
  ELSE SetLo(Put(c, "ind", c.lo + j, LoScan(c, c.ind[c.col + j], j)), j + 1, nVar)

\* convertHessian( prob, eps, hess_, hessNz_, hessIndRow_, hessIndCol_, hessIndLo_ ):
\* the arrays and counters at its end
ConvertHessian(it, pb, eps) ==
  LET H   == HessOf(it)
      nnz == CountNnz(H, 0, it.nBlocks, eps)
      c0  == [nz  |-> NewArr(nnz, Uninit),
              ind |-> NewArr(nnz + (pb.nVar + 1) + pb.nVar, Uninit),
              col |-> nnz, lo |-> nnz + (pb.nVar + 1),
              count |-> 0, colTotal |-> 0, nnz |-> nnz, ub |-> FALSE]
      c1  == EmitBlocks(c0, H, 0, it.nBlocks, 0, eps)
      c2  == IF c1.ub THEN c1 ELSE Put(c1, "ind", c1.col + c1.colTotal, c1.count)
  IN  SetLo(c2, 0, pb.nVar)

(***************************************************************************)
(* The conversion as a machine: a full iterate of a problem, whose Hessian *)
(* blocks are written element by element (as the Hessian updates do) and   *)
(* converted to the sparse format before a QP is solved.                   *)
(***************************************************************************)
\* the options of the iterates whose Hessian is converted: a sparse QP solver
HessOptions ==
  { pm \in Options : /\ pm.sparseQP = 2 /\ pm.hessUpdate = 0 /\ pm.hessLimMem = 0
                     /\ pm.hessMemsize = 2 /\ pm.whichSecondDerv = 0
                     /\ pm.fallbackUpdate = 2 /\ pm.fallbackScaling = 4 }

\* the number of nonzero elements of the blocks iBlock .. nBlocks-1
RECURSIVE Nonzeros(_, _, _)
Nonzeros(H, iBlock, nBlocks) ==
  IF iBlock >= nBlocks THEN 0
  ELSE Cardinality({ k \in DOMAIN H[iBlock].data : H[iBlock].data[k] # 0 })
         + Nonzeros(H, iBlock + 1, nBlocks)

InitHess ==
  /\ prob \in { pb \in Problems : pb.nCon = 1 }
  /\ \E pm \in HessOptions :
       /\ iter = SQPiterateCtor(prob, pm, TRUE)
       /\ param = CtorParam(prob, pm)
  /\ pc = <<"constructed", TRUE>>
  /\ heap = <<>> /\ mats = <<>> /\ out = <<>> /\ ub = FALSE
  /\ view = <<>> /\ reviewed = FALSE
  /\ IdleAux

\* iter->hess[iBlock]( i, j ) = v
SetHess(iBlock, i, j, v) ==
  /\ ~ub
  /\ iBlock \in 0 .. iter.nBlocks - 1
  /\ LET B == HessOf(iter)[iBlock]
     IN  /\ i \in 0 .. B.m - 1
         /\ j \in 0 .. B.m - 1
         /\ iter' = [iter EXCEPT !.hess1.data[iBlock].data[SymMatrixIndex(B, i, j)] = v]
  /\ Nonzeros(HessOf(iter'), 0, iter.nBlocks) <= MaxNonzero
  /\ pc' = <<"written">>
  /\ out' = <<>>
  /\ UNCHANGED <<prob, param, heap, mats, ub, view, reviewed, auxVars>>

\* iter->convertHessian( prob, eps, iter->hess, iter->hessNz, iter->hessIndRow,
\*                       iter->hessIndCol, iter->hessIndLo )
DoConvertHessian(eps) ==
  /\ ~ub
  /\ LET c == ConvertHessian(iter, prob, eps)
     IN  /\ iter' = [iter EXCEPT !.hessNz = Alloc(c.nz), !.hessIndRow = Alloc(c.ind),
                                 !.hessIndCol = c.col, !.hessIndLo = c.lo]
         /\ ub' = c.ub
         /\ out' = IF c.count # c.nnz THEN <<"convertHessian">> ELSE <<>>
  /\ pc' = <<"converted", eps>>
  /\ UNCHANGED <<prob, param, heap, mats, view, reviewed, auxVars>>

NextHess ==
  \/ \E iBlock \in 0 .. MaxVar - 1, i \in 0 .. MaxVar - 1, j \in 0 .. MaxVar - 1,
        v \in HessVals : SetHess(iBlock, i, j, v)
  \/ \E eps \in EpsVals : DoConvertHessian(eps)

SpecHess == InitHess /\ [][NextHess]_vars

(***************************************************************************)
(* Properties of the conversion.                                           *)
(***************************************************************************)
\* the arrays of the iterate after a conversion
HessIndRow(p) == iter.hessIndRow.data[p]
HessIndCol(j) == iter.hessIndRow.data[iter.hessIndCol + j]
HessIndLo(j) == iter.hessIndRow.data[iter.hessIndLo + j]

\* the stored positions of column c, and those of them in row r
ColumnPos(c) == HessIndCol(c) .. HessIndCol(c + 1) - 1
EntryPos(r, c) == { p \in ColumnPos(c) : HessIndRow(p) = r }

\* the block of the iterate that holds variable r
BlockOf(r) ==
  CHOOSE b \in 0 .. iter.nBlocks - 1 : iter.blockIdx[b] <= r /\ r < iter.blockIdx[b + 1]

\* element (r, c) of the block-diagonal Hessian
FullHess(r, c) ==
  IF BlockOf(r) = BlockOf(c)
    THEN HessAt(HessOf(iter)[BlockOf(r)], r - iter.blockIdx[BlockOf(r)],
                c - iter.blockIdx[BlockOf(r)])
    ELSE 0

\* C9: after the sparse convertHessian with threshold eps >= 0, the dense matrix
\* rebuilt from values, row indices and column pointers holds every element of the
\* block-diagonal Hessian with |value| > eps, in both triangles, and every other
\* position (off the blocks, or |value| <= eps) is not stored, hence zero.
C9_RebuildReproduces ==
  pc[1] = "converted" =>
    /\ ~ub
    /\ out = <<>>
    /\ DOMAIN iter.hessNz.data = 0 .. HessIndCol(prob.nVar) - 1
    /\ \A r \in 0 .. prob.nVar - 1, c \in 0 .. prob.nVar - 1 :
         IF Fabs(FullHess(r, c)) > pc[2]
           THEN /\ Cardinality(EntryPos(r, c)) = 1
                /\ \A p \in EntryPos(r, c) : iter.hessNz.data[p] = FullHess(r, c)
           ELSE EntryPos(r, c) = {}

\* a conversion of a Hessian of two blocks that kept a negative element off the
\* diagonal and dropped an element at the threshold
C9_Witness ==
  /\ pc[1] = "converted"
  /\ pc[2] = 1
  /\ iter.nBlocks = 2
  /\ \E r \in 0 .. prob.nVar - 1, c \in 0 .. prob.nVar - 1 :
       /\ r # c
       /\ FullHess(r, c) = 2
       /\ EntryPos(r, c) # {}
  /\ \E r \in 0 .. prob.nVar - 1 : FullHess(r, r) = 0 - 1 /\ EntryPos(r, r) = {}

\* C10: after the sparse convertHessian, hessIndLo[j] is the position of the first
\* stored entry of column j with row index >= j, or hessIndCol[j+1] when column j
\* has none; so hessIndCol[j] <= hessIndLo[j] <= hessIndCol[j+1] and the entries of
\* column j before hessIndLo[j] are strictly above the diagonal.
C10_LowerStart ==
  pc[1] = "converted" =>
    \A j \in 0 .. prob.nVar - 1 :
      LET low == { p \in ColumnPos(j) : HessIndRow(p) >= j }
      IN  /\ HessIndCol(j) <= HessIndLo(j)
          /\ HessIndLo(j) <= HessIndCol(j + 1)
          /\ \A p \in ColumnPos(j) : p < HessIndLo(j) => HessIndRow(p) < j
          /\ IF low = {} THEN HessIndLo(j) = HessIndCol(j + 1)
                         ELSE /\ HessIndLo(j) \in low
                              /\ \A p \in low : HessIndLo(j) <= p

\* a conversion after which a column of a three-variable problem has an entry above
\* the diagonal followed by its first entry on the diagonal
C10_Witness ==
  /\ pc[1] = "converted"
  /\ prob.nVar = 3
  /\ \E j \in 0 .. prob.nVar - 1 :
       /\ HessIndCol(j) < HessIndLo(j)
       /\ HessIndLo(j) < HessIndCol(j + 1)
       /\ HessIndRow(HessIndLo(j)) = j

(***************************************************************************)
(* SQPiterate::convertHessian, the dense variant: the block Hessian to the *)
(* double array hessNz of nVar*nVar elements that the constructor made for *)
(* a dense QP solver.                                                      *)
(***************************************************************************)
\* hessNz[count++] = v
DensePut(c, v) ==
  IF c.count \in DOMAIN c.nz
    THEN [c EXCEPT !.nz[c.count] = v, !.count = c.count + 1]
    ELSE [c EXCEPT !.ub = TRUE]

\* the inner loop over j .. nVar-1 of row i: the block counter advances when i is
\* the start of the next block; the element is read from H
RECURSIVE DenseCols(_, _, _, _, _, _)
DenseCols(c, H, blockIdx, i, j, nVar) ==
  IF j >= nVar \/ c.ub THEN c
  ELSE LET b  == IF i = blockIdx[c.blockCnt + 1] THEN c.blockCnt + 1 ELSE c.blockCnt
           c1 == [c EXCEPT !.blockCnt = b]
           c2 == IF j >= blockIdx[b] /\ j < blockIdx[b + 1]
                   THEN IF b \in DOMAIN H
                          THEN DensePut(c1, HessAt(H[b], i - blockIdx[b], j - blockIdx[b]))
                          ELSE [c1 EXCEPT !.ub = TRUE]
                   ELSE DensePut(c1, 0)
       IN  DenseCols(c2, H, blockIdx, i, j + 1, nVar)

\* the outer loop over i .. nVar-1
RECURSIVE DenseRows(_, _, _, _, _)
DenseRows(c, H, blockIdx, i, nVar) ==
  IF i >= nVar \/ c.ub THEN c
  ELSE DenseRows(DenseCols(c, H, blockIdx, i, 0, nVar), H, blockIdx, i + 1, nVar)

\* the conversion reading the blocks of its argument
ConvertHessianDense_Argument(it, pb, hess_) ==
  IF ~it.hessNz.alloc THEN [nz |-> it.hessNz.data, count |-> 0, blockCnt |-> 0, ub |-> FALSE]
  ELSE DenseRows([nz |-> it.hessNz.data, count |-> 0, blockCnt |-> 0, ub |-> FALSE],
                 hess_, it.blockIdx, 0, pb.nVar)

\* convertHessian( prob, eps, hess_ ): hessNz, the counters and whether the
\* behaviour was undefined at its end; the blocks are read from the member hess
ConvertHessianDense(it, pb, hess_) ==
  IF ~it.hessNz.alloc THEN [nz |-> it.hessNz.data, count |-> 0, blockCnt |-> 0, ub |-> FALSE]
  ELSE DenseRows([nz |-> it.hessNz.data, count |-> 0, blockCnt |-> 0, ub |-> FALSE],
                 HessOf(it), it.blockIdx, 0, pb.nVar)

(***************************************************************************)
(* The dense conversion as a machine: a full iterate, with one or two sets *)
(* of Hessian blocks, whose blocks are written element by element and      *)
(* converted; the caller hands hess1 or hess2 to the conversion.           *)
(***************************************************************************)
\* the options of the iterates of this machine: a dense or a sparse QP solver, one
\* or two sets of Hessian blocks
DenseOptions ==
  { pm \in Options : /\ pm.hessLimMem = 0 /\ pm.hessMemsize = 2 /\ pm.whichSecondDerv = 0
                     /\ pm.fallbackUpdate = 2 /\ pm.fallbackScaling = 4 }

\* the SymMatrix array hess1 (which = 1) or hess2 (which = 2) of the iterate
HessSet(it, which) == IF which = 1 THEN it.hess1 ELSE it.hess2

InitDense ==
  /\ prob \in { pb \in Problems : pb.nCon = 1 }
  /\ \E pm \in DenseOptions :
       /\ iter = SQPiterateCtor(prob, pm, TRUE)
       /\ param = CtorParam(prob, pm)
  /\ pc = <<"constructed", TRUE>>
  /\ heap = <<>> /\ mats = <<>> /\ out = <<>> /\ ub = FALSE
  /\ view = <<>> /\ reviewed = FALSE
  /\ IdleAux

\* iter->hess1[iBlock]( i, j ) = v or iter->hess2[iBlock]( i, j ) = v; the runs of
\* this machine write the blocks and then convert them
SetHessIn(which, iBlock, i, j, v) ==
  /\ ~ub
  /\ pc[1] # "dense"
  /\ HessSet(iter, which).alloc
  /\ iBlock \in 0 .. iter.nBlocks - 1
  /\ LET B == HessSet(iter, which).data[iBlock]
     IN  /\ i \in 0 .. B.m - 1
         /\ j \in 0 .. B.m - 1
         /\ iter' = IF which = 1
                      THEN [iter EXCEPT !.hess1.data[iBlock].data[SymMatrixIndex(B, i, j)] = v]
                      ELSE [iter EXCEPT !.hess2.data[iBlock].data[SymMatrixIndex(B, i, j)] = v]
  /\ Nonzeros(iter'.hess1.data, 0, iter.nBlocks)
       + (IF iter.hess2.alloc THEN Nonzeros(iter'.hess2.data, 0, iter.nBlocks) ELSE 0)
       <= MaxNonzero
  /\ pc' = <<"written">>
  /\ UNCHANGED <<prob, param, heap, mats, out, ub, view, reviewed, auxVars>>

\* iter->convertHessian( prob, eps, iter->hess1 ) or ( prob, eps, iter->hess2 )
DoConvertHessianDense(which) ==
  /\ ~ub
  /\ HessSet(iter, which).alloc
  /\ LET c == ConvertHessianDense(iter, prob, HessSet(iter, which).data)
     IN  /\ iter' = [iter EXCEPT !.hessNz.data = c.nz]
         /\ ub' = c.ub
         /\ ret' = [count |-> c.count]
  /\ env' = iter
  /\ pc' = <<"dense", which>>
  /\ UNCHANGED <<prob, param, heap, mats, out, view, reviewed, rest, ls>>

NextDense ==
  \/ \E which \in {1, 2}, iBlock \in 0 .. MaxVar - 1, i \in 0 .. MaxVar - 1,
        j \in 0 .. MaxVar - 1, v \in HessVals : SetHessIn(which, iBlock, i, j, v)
  \/ \E which \in {1, 2} : DoConvertHessianDense(which)

SpecDense == InitDense /\ [][NextDense]_vars

\* the block of the partition of the iterate before the call that holds variable r
DenseBlockOf(r) ==
  CHOOSE b \in 0 .. env.nBlocks - 1 : env.blockIdx[b] <= r /\ r < env.blockIdx[b + 1]

\* element (r, c) of the block-diagonal matrix of the blocks H
BlockDiagonal(H, r, c) ==
  IF DenseBlockOf(r) = DenseBlockOf(c)
    THEN HessAt(H[DenseBlockOf(r)], r - env.blockIdx[DenseBlockOf(r)],
                c - env.blockIdx[DenseBlockOf(r)])
    ELSE 0

\* C29: after the dense convertHessian( prob, eps, hess_ ), hessNz[i*nVar + j] is
\* element (i, j) of the block-diagonal matrix of the blocks of the argument hess_
\* (zero off the blocks), also when hess_ is not the Hessian the iterate points
\* to; exactly nVar*nVar elements are written; when hessNz is not allocated the
\* call changes nothing.
C29_DenseFromArgument ==
  pc[1] = "dense" =>
    /\ ~ub
    /\ IF env.hessNz.alloc
         THEN /\ ret.count = prob.nVar * prob.nVar
              /\ \A i \in 0 .. prob.nVar - 1, j \in 0 .. prob.nVar - 1 :
                   iter.hessNz.data[i * prob.nVar + j]
                     = BlockDiagonal(HessSet(env, pc[2]).data, i, j)
         ELSE iter = env /\ ret.count = 0

\* a conversion of hess2, holding a nonzero element, by an iterate of two blocks
\* whose pointer hess is hess1
C29_Witness ==
  /\ pc[1] = "dense"
  /\ pc[2] = 2
  /\ env.hessNz.alloc
  /\ env.hess = 1
  /\ env.nBlocks = 2
  /\ \E i \in 0 .. prob.nVar - 1, j \in 0 .. prob.nVar - 1 :
       BlockDiagonal(env.hess2.data, i, j) # BlockDiagonal(env.hess1.data, i, j)

(***************************************************************************)
(* Problemspec::evaluate, the adapter without derivatives.  The two        *)
(* virtual evaluate methods are the code of the user's problem: each is    *)
(* known here by the status it reports and by the values it writes to      *)
(* *objval and constr (a method that is not implemented writes none).      *)
(***************************************************************************)
\* what one virtual evaluate of a problem does when it is called
Evaluators == [info : {0, 1}, writes : BOOLEAN, objval : {1, 2}, constr : {1, 2}]

\* the int *info of a caller: the address of one of its variables, never 0
InfoPtr == [null |-> FALSE]

\* one virtual evaluate called with the output arguments o
CallEvaluate(o, name, ev) ==
  [o EXCEPT !.calls  = Append(@, name),
            !.info   = ev.info,
            !.objval = IF ev.writes THEN ev.objval ELSE @,
            !.constr = IF ev.writes THEN ev.constr ELSE @]

\* the test of the status the sparse call reported: if (*info )
DenseWanted_Status(o, info) == o.info # 0

\* the test of line 1361: if (info ), info the pointer
DenseWanted(o, info) == ~info.null

\* Problemspec::evaluate( xi, objval, constr, info )
ProblemspecEvaluate(pb, o, info) ==
  LET o0 == [o EXCEPT !.info = 0]
      o1 == CallEvaluate(o0, "sparse", pb.sparse)
  IN  IF DenseWanted(o1, info) THEN CallEvaluate(o1, "dense", pb.dense) ELSE o1

\* a caller wrote a problem; objval and constr are its variables, not yet set
InitEval ==
  /\ env \in [sparse : Evaluators, dense : Evaluators]
  /\ ret = [calls |-> <<>>, info |-> Uninit, objval |-> Uninit, constr |-> Uninit]
  /\ pc = <<"idle">>
  /\ prob = 0 /\ param = 0 /\ iter = 0 /\ rest = 0 /\ ls = 0
  /\ heap = <<>> /\ mats = <<>> /\ out = <<>> /\ ub = FALSE
  /\ view = <<>> /\ reviewed = FALSE

\* prob->evaluate( xi, &objval, constr, &info )
DoEvaluate ==
  /\ pc = <<"idle">>
  /\ ret' = ProblemspecEvaluate(env, ret, InfoPtr)
  /\ pc' = <<"evaluated">>
  /\ UNCHANGED <<env, rest, ls, prob, param, iter, matVars>>

NextEval == DoEvaluate

SpecEval == InitEval /\ [][NextEval]_vars

\* C11: the adapter calls the sparse evaluate first and the dense evaluate only
\* when the sparse call reported a nonzero status; when the sparse call succeeds
\* the dense one is not called and status and outputs are those of the sparse call.
C11_DenseOnlyOnFailure ==
  pc = <<"evaluated">> =>
    /\ ret.calls[1] = "sparse"
    /\ (Len(ret.calls) > 1 => env.sparse.info # 0)
    /\ env.sparse.info = 0 =>
         /\ ret.calls = <<"sparse">>
         /\ ret.info = 0
         /\ env.sparse.writes => /\ ret.objval = env.sparse.objval
                                 /\ ret.constr = env.sparse.constr

(***************************************************************************)
(* RestorationProblem.  A vector of doubles is a function on 0 .. len-1.   *)
(* The points, bounds and residuals of the model are integers; the         *)
(* weights, the scaling, the objective and its gradient are fractions      *)
(* <<numerator, denominator>> in lowest terms, so that 1e-3, 1/|x| and     *)
(* the products of them are exact.                                         *)
(***************************************************************************)
\* largest number of variables, and of constraints, of a parent problem
MaxParentVar == 2
MaxParentCon == 2

\* the coordinates of a point, and the constants of the parent's constraints
PointVals == {0 - 2, 0, 1}
OffsetVals == {0 - 2, 0, 3}

\* what a read of a double that was never written, or lies outside its array, gives
Garbage == {0, 5}

\* 1.0e20, beyond the integers of the checker: a bound above every value of the model
Huge == 10 ^ 9

RECURSIVE Gcd(_, _)
Gcd(a, b) == IF b = 0 THEN a ELSE Gcd(b, a % b)

\* the fraction n/d in lowest terms, d > 0
Frac(n, d) ==
  LET g == Gcd(Fabs(n), Fabs(d))
  IN  IF d < 0 THEN <<(0 - n) \div g, (0 - d) \div g>> ELSE <<n \div g, d \div g>>

FromInt(k) == <<k, 1>>
FAdd(a, b) == Frac(a[1] * b[2] + b[1] * a[2], a[2] * b[2])
FMul(a, b) == Frac(a[1] * b[1], a[2] * b[2])

\* 0.5, 1.0e-3 and 1.0e3
Half == <<1, 2>>
Zeta == <<1, 1000>>
Rho == <<1000, 1>>

\* a double member or array that was never written
NoValue == <<0, 0>>

\* the sum of f[k] for k in lo .. hi-1, left to right
RECURSIVE SumFrac(_, _, _)
SumFrac(f, lo, hi) ==
  IF lo >= hi THEN FromInt(0) ELSE FAdd(SumFrac(f, lo, hi - 1), f[hi - 1])

RECURSIVE SumInt(_, _, _)
SumInt(f, lo, hi) == IF lo >= hi THEN 0 ELSE SumInt(f, lo, hi - 1) + f[hi - 1]

(***************************************************************************)
(* The parent is a problem of the user: nVar variables within [-2, 2],     *)
(* nCon constraints c_k( x ) = offset + k + sum of x, each within [0, 1];  *)
(* its evaluate methods report the status info whatever the point is.      *)
(***************************************************************************)
\* the constraint k of the parent at the point x
ParentConstr(pp, x, k) == pp.offset + k + SumInt(x, 0, pp.nVar)

\* the parent problems
Parents ==
  { pp \in UNION { [nVar : {nv[1]}, nCon : {nv[2]}, nBlocks : {nv[3]},
                    blockIdx : {[i \in 0 .. nv[3] |-> IF i = nv[3] THEN nv[1] ELSE i]},
                    bl : {[k \in 0 .. nv[1] + nv[2] - 1 |-> IF k < nv[1] THEN 0 - 2 ELSE 0]},
                    bu : {[k \in 0 .. nv[1] + nv[2] - 1 |-> IF k < nv[1] THEN 2 ELSE 1]},
                    offset : OffsetVals, info : {0, 1}] :
                   nv \in (1 .. MaxParentVar) \X (1 .. MaxParentCon) \X (1 .. MaxParentVar) } :
      /\ pp.nVar + pp.nCon <= MaxParentVar + 1
      /\ pp.nBlocks <= pp.nVar }

\* the slack variables put into the last block of the parent
RestBlockIdx_NoSlackBlocks(pp, nB) ==
  [i \in 0 .. nB |->
     IF i < pp.nBlocks THEN pp.blockIdx[i]
     ELSE pp.blockIdx[pp.nBlocks] + (nB - pp.nBlocks)]

\* lines 1965-1969: the parent's boundaries, then blockIdx[i] = blockIdx[i-1]+1
RestBlockIdx(pp, nB) ==
  [i \in 0 .. nB |->
     IF i <= pp.nBlocks THEN pp.blockIdx[i]
     ELSE pp.blockIdx[pp.nBlocks] + (i - pp.nBlocks)]

\* RestorationProblem::RestorationProblem( parentProblem, xiReference )
RestorationProblemCtor(pp, xiReference) ==
  LET nV == pp.nVar + pp.nCon
      nC == pp.nCon
      nB == pp.nBlocks + nC
  IN  [xiRef    |-> [i \in 0 .. pp.nVar - 1 |-> xiReference[i]],
       nVar     |-> nV,
       nCon     |-> nC,
       nBlocks  |-> nB,
       blockIdx |-> RestBlockIdx(pp, nB),
       objLo    |-> 0,
       objUp    |-> Huge,
       bl       |-> [k \in 0 .. nV + nC - 1 |->
                       IF k < pp.nVar THEN pp.bl[k]
                       ELSE IF k >= nV THEN pp.bl[pp.nVar + (k - nV)] ELSE 0 - Huge],
       bu       |-> [k \in 0 .. nV + nC - 1 |->
                       IF k < pp.nVar THEN pp.bu[k]
                       ELSE IF k >= nV THEN pp.bu[pp.nVar + (k - nV)] ELSE Huge],
       diagScale |-> NullArr,
       zeta     |-> NoValue,
       rho      |-> NoValue]

\* v( k ) of a vector of integers: outside of it, or never written, the read is
\* undefined and gives g
ReadAt(v, k, g) == IF k \in DOMAIN v THEN v[k] ELSE g
Defined(v, k) == k \in DOMAIN v

\* a member double or diagScale( i ) of the RestorationProblem, g when it was never set
ReadMember(x, g) == IF x = NoValue THEN FromInt(g) ELSE x
ReadScale(rp, i, g) ==
  IF rp.diagScale.alloc /\ i \in DOMAIN rp.diagScale.data
    THEN rp.diagScale.data[i] ELSE FromInt(g)

\* the output arguments of an evaluate before the call: constr and gradObj are
\* vectors of the caller, wrote is the set of outputs the restoration layer assigned
NoOutputs(rp) ==
  [objval  |-> NoValue,
   constr  |-> [k \in 0 .. rp.nCon - 1 |-> 0],
   gradObj |-> [i \in 0 .. rp.nVar - 1 |-> NoValue],
   info    |-> Uninit,
   wrote   |-> {},
   ub      |-> FALSE]

\* parent->evaluate( xiOrig, lambda, objval, constr, gradObj, ..., dmode, info ):
\* residuals in every mode, the objective sum of x from mode 0, its gradient in mode > 0
ParentEvaluate(pp, xiOrig, o, dmode) ==
  [o EXCEPT !.constr  = [k \in DOMAIN @ |-> IF k < pp.nCon THEN ParentConstr(pp, xiOrig, k)
                                                           ELSE @[k]],
            !.objval  = IF dmode >= 0 THEN FromInt(SumInt(xiOrig, 0, pp.nVar)) ELSE @,
            !.gradObj = IF dmode > 0 THEN [i \in DOMAIN @ |-> IF i < pp.nVar THEN FromInt(1)
                                                                             ELSE @[i]]
                                     ELSE @,
            !.info    = pp.info]

\* the slack whose weight the gradient loop of the sparse variant reads: xi( i )
SlackOfGradient_Sparse(pp, i) == i

\* the one of the dense variant: slack( i ), element parent->nVar + i of xi
SlackOfGradient_Dense(pp, i) == pp.nVar + i

\* the rest of evaluate with the derivative mode test of line 2033 turned into >= 0
GradientWanted_FromZero(dmode) == dmode >= 0

\* line 2033 / 2092: if (dmode > 0 )
GradientWanted(dmode) == dmode > 0

\* RestorationProblem::evaluate, both variants: dense tells them apart, g is what
\* the undefined reads give
RestorationEvaluate(rp, pp, xi, o, dmode, dense, g) ==
  LET xiOrig == [i \in 0 .. pp.nVar - 1 |-> xi[i]]
      slack  == [k \in 0 .. pp.nCon - 1 |-> xi[pp.nVar + k]]
      o1 == ParentEvaluate(pp, xiOrig, o, dmode)
      o2 == [o1 EXCEPT !.constr = [k \in DOMAIN @ |-> IF k < rp.nCon THEN @[k] - slack[k]
                                                                     ELSE @[k]],
                       !.wrote = @ \cup {"constr"}]
      rho    == ReadMember(rp.rho, g)
      zeta   == ReadMember(rp.zeta, g)
      sq     == [k \in 0 .. rp.nCon - 1 |-> FromInt(slack[k] * slack[k])]
      first  == FMul(FMul(Half, rho), SumFrac(sq, 0, rp.nCon))
      terms  == [i \in 0 .. pp.nVar - 1 |->
                   FMul(ReadScale(rp, i, g),
                        FromInt((xiOrig[i] - rp.xiRef[i]) * (xiOrig[i] - rp.xiRef[i])))]
      regTerm == FMul(FMul(Half, zeta), SumFrac(terms, 0, pp.nVar))
      undef0 == \/ rp.rho = NoValue \/ rp.zeta = NoValue
                \/ \E i \in 0 .. pp.nVar - 1 :
                     ~(rp.diagScale.alloc /\ i \in DOMAIN rp.diagScale.data)
      o3 == [o2 EXCEPT !.objval = FAdd(first, regTerm),
                       !.wrote = @ \cup {"objval"},
                       !.ub = undef0]
      src(i) == IF dense THEN SlackOfGradient_Dense(pp, i) ELSE SlackOfGradient_Sparse(pp, i)
      undef1 == \E i \in pp.nVar .. rp.nVar - 1 : ~Defined(xi, src(i))
      o4 == [o3 EXCEPT !.gradObj =
                          [i \in DOMAIN @ |->
                             IF i < pp.nVar
                               THEN FMul(FMul(zeta, FMul(ReadScale(rp, i, g), ReadScale(rp, i, g))),
                                         FromInt(xiOrig[i] - rp.xiRef[i]))
                               ELSE IF i < rp.nVar
                                 THEN FMul(rho, FromInt(ReadAt(xi, src(i), g)))
                                 ELSE @[i]],
                       !.wrote = @ \cup {"gradObj"},
                       !.ub = undef0 \/ undef1]
      o5 == IF GradientWanted(dmode) THEN o4 ELSE o3
  IN  IF dmode < 0 THEN o2
      ELSE [o5 EXCEPT !.info = 0, !.wrote = @ \cup {"info"}]

\* parent->initialize: the parent's own starting point 0, and its Jacobian, every
\* element 1: column-compressed with nCon entries in each of the nVar columns
ParentJacNz(pp) == [p \in 0 .. pp.nVar * pp.nCon - 1 |-> 1]
ParentJacIndRow(pp) == [p \in 0 .. pp.nVar * pp.nCon - 1 |-> p % pp.nCon]
ParentJacIndCol(pp) == [j \in 0 .. pp.nVar |-> j * pp.nCon]

\* the loop that seeds the slacks with the feasible case added: slack = 0
SeedSlack_AlsoFeasible(pp, c, old) ==
  [k \in 0 .. pp.nCon - 1 |->
     IF c[k] <= pp.bl[pp.nVar + k] THEN c[k] - pp.bl[pp.nVar + k]
     ELSE IF c[k] > pp.bu[pp.nVar + k] THEN c[k] - pp.bu[pp.nVar + k]
     ELSE 0]

\* lines 2150-2155 / 2195-2200: the slacks after the loop, old the slacks before it
SeedSlack(pp, c, old) ==
  [k \in 0 .. pp.nCon - 1 |->
     IF c[k] <= pp.bl[pp.nVar + k] THEN c[k] - pp.bl[pp.nVar + k]
     ELSE IF c[k] > pp.bu[pp.nVar + k] THEN c[k] - pp.bu[pp.nVar + k]
     ELSE old[k]]

\* lines 2158-2161: diagScale.Dimension( parent->nVar ).Initialize( 1.0 ), then
\* 1 / |xiRef( i )| where |xiRef( i )| > 1
DiagScale(rp, pp) ==
  Alloc([i \in 0 .. pp.nVar - 1 |->
           IF Fabs(rp.xiRef[i]) > 1 THEN Frac(1, Fabs(rp.xiRef[i])) ELSE FromInt(1)])

\* the members initialize sets
InitializedProblem(rp, pp) ==
  [rp EXCEPT !.diagScale = DiagScale(rp, pp), !.zeta = Zeta, !.rho = Rho]

\* what parent->evaluate( xiOrig, &objval, constrRef, &info ) leaves in constrRef:
\* the call goes through the adapter Problemspec::evaluate
ConstrRef(pp, xiOrig) ==
  LET ev == [info |-> pp.info, writes |-> TRUE,
             objval |-> FromInt(SumInt(xiOrig, 0, pp.nVar)),
             constr |-> [k \in 0 .. pp.nCon - 1 |-> ParentConstr(pp, xiOrig, k)]]
      o0 == [calls |-> <<>>, info |-> Uninit, objval |-> NoValue,
             constr |-> [k \in 0 .. pp.nCon - 1 |-> Uninit]]
  IN  ProblemspecEvaluate([sparse |-> ev, dense |-> ev], o0, InfoPtr).constr

\* a column start one entry further
SlackColumnStart_Shifted(nnzOrig, i, pp) == nnzOrig + i - pp.nVar + 1

\* line 2140: jacIndCol[i] of the slack columns and of the end, parent->nVar <= i
SlackColumnStart(nnzOrig, i, pp) == nnzOrig + i - pp.nVar

\* RestorationProblem::initialize, both variants: the vectors and the Jacobian of
\* the caller after the call
InitializedCaller(rp, pp, e, dense) ==
  LET nnzOrig == ParentJacIndCol(pp)[pp.nVar]
      nnz     == nnzOrig + rp.nCon
      old     == [k \in 0 .. pp.nCon - 1 |-> e.xi[pp.nVar + k]]
      slack   == SeedSlack(pp, ConstrRef(pp, rp.xiRef), old)
      ind     == [p \in 0 .. nnz + (rp.nVar + 1) - 1 |->
                    IF p < nnzOrig THEN ParentJacIndRow(pp)[p]
                    ELSE IF p < nnz THEN p - nnzOrig
                    ELSE IF p - nnz < pp.nVar THEN ParentJacIndCol(pp)[p - nnz]
                    ELSE SlackColumnStart(nnzOrig, p - nnz, pp)]
  IN  [e EXCEPT
         !.xi = [i \in DOMAIN @ |-> IF i < pp.nVar THEN rp.xiRef[i]
                                    ELSE IF i < pp.nVar + pp.nCon THEN slack[i - pp.nVar]
                                    ELSE @[i]],
         !.lambda = [i \in DOMAIN @ |-> 0],
         !.jacNz = IF dense THEN @
                   ELSE Alloc([p \in 0 .. nnz - 1 |-> IF p < nnzOrig THEN ParentJacNz(pp)[p]
                                                                     ELSE 0 - 1]),
         !.jacIndRow = IF dense THEN @ ELSE Alloc(ind),
         !.jacIndCol = IF dense THEN @ ELSE nnz,
         !.constrJac = IF dense
                         THEN [c \in DOMAIN @ |->
                                 IF c[2] < pp.nVar THEN 1
                                 ELSE IF c[2] = pp.nVar + c[1] THEN 0 - 1 ELSE @[c]]
                         ELSE @]

(***************************************************************************)
(* The restoration phase as a machine: a RestorationProblem constructed    *)
(* from a parent and a reference point, an iterate xi of the caller with   *)
(* whatever it held before, then initialize and evaluate in any order.     *)
(***************************************************************************)
\* the derivative modes: negative, zero, positive
DModes == {0 - 1, 0, 1}

\* the vectors and the Jacobian storage of the caller, for the problem rp
Callers(rp) ==
  [xi        : [0 .. rp.nVar - 1 -> PointVals],
   lambda    : {[i \in 0 .. rp.nVar + rp.nCon - 1 |-> Uninit]},
   jacNz     : {NullArr},
   jacIndRow : {NullArr},
   jacIndCol : {0},
   constrJac : {[c \in (0 .. rp.nCon - 1) \X (0 .. rp.nVar - 1) |-> 0]}]

InitRest ==
  /\ \E pp \in Parents :
       \E xiReference \in [0 .. pp.nVar - 1 -> PointVals] :
         /\ rest = RestorationProblemCtor(pp, xiReference)
         /\ \E e \in Callers(rest) : env = [parent |-> pp] @@ e
  /\ ret = NoOutputs(rest)
  /\ pc = <<"constructed">>
  /\ prob = 0 /\ param = 0 /\ iter = 0 /\ ls = 0
  /\ heap = <<>> /\ mats = <<>> /\ out = <<>> /\ ub = FALSE
  /\ view = <<>> /\ reviewed = FALSE

\* rest.initialize( xi, lambda, jacNz, jacIndRow, jacIndCol ), or the dense variant
\* rest.initialize( xi, lambda, constrJac )
DoRestInitialize(dense) ==
  /\ ~ub
  /\ rest.zeta = NoValue
  /\ rest' = InitializedProblem(rest, env.parent)
  /\ env' = InitializedCaller(rest, env.parent, env, dense)
  /\ ret' = NoOutputs(rest)
  /\ pc' = <<"initialized", dense>>
  /\ UNCHANGED <<ls, prob, param, iter, matVars>>

\* rest.evaluate( xi, lambda, &objval, constr, gradObj, ..., dmode, &info ), sparse
\* or dense, into output arguments not yet written
DoRestEvaluate(dmode, dense, g) ==
  /\ ~ub
  /\ ret' = RestorationEvaluate(rest, env.parent, env.xi, NoOutputs(rest), dmode, dense, g)
  /\ ub' = ret'.ub
  /\ pc' = <<"evaluated", dmode, dense>>
  /\ UNCHANGED <<env, rest, ls, prob, param, iter, heap, mats, out, view, reviewed>>

\* xi( k ) = v: the caller moves the iterate of an initialized problem to a trial point
SetTrialPoint(k, v) ==
  /\ ~ub
  /\ rest.zeta # NoValue
  /\ k \in DOMAIN env.xi
  /\ env' = [env EXCEPT !.xi[k] = v]
  /\ ret' = NoOutputs(rest)
  /\ pc' = <<"moved">>
  /\ UNCHANGED <<rest, ls, prob, param, iter, matVars>>

NextRest ==
  \/ \E dense \in BOOLEAN : DoRestInitialize(dense)
  \/ \E k \in 0 .. MaxParentVar + MaxParentCon - 1, v \in PointVals : SetTrialPoint(k, v)
  \/ \E dmode \in DModes, dense \in BOOLEAN, g \in Garbage : DoRestEvaluate(dmode, dense, g)

SpecRest == InitRest /\ [][NextRest]_vars

\* C12: after initialize, sparse or dense, every converted constraint value
\* c_i( xRef ) - slack_i lies within [bl_i, bu_i], equal to the violated bound when
\* the constraint is violated at the reference point, whatever the reference
\* point is and whatever the slack part of xi held before the call.
C12_SeededSlacksFeasible ==
  pc[1] = "initialized" =>
    \A k \in 0 .. rest.nCon - 1 :
      LET c  == ParentConstr(env.parent, rest.xiRef, k)
          v  == c - env.xi[env.parent.nVar + k]
          lo == env.parent.bl[env.parent.nVar + k]
          up == env.parent.bu[env.parent.nVar + k]
      IN  /\ lo <= v /\ v <= up
          /\ c < lo => v = lo
          /\ c > up => v = up

\* C13: in every derivative mode evaluate returns, for each constraint, the parent's
\* residual at the original variables minus the slack; in negative mode the
\* restoration layer writes nothing else, in zero mode it also writes the objective
\* value but no gradient entry, and only in positive mode it writes the gradient.
C13_ResidualsAndModes ==
  pc[1] = "evaluated" =>
    LET pp     == env.parent
        xiOrig == [i \in 0 .. pp.nVar - 1 |-> env.xi[i]]
    IN  /\ \A k \in 0 .. rest.nCon - 1 :
             ret.constr[k] = ParentConstr(pp, xiOrig, k) - env.xi[pp.nVar + k]
        /\ pc[2] < 0 => /\ ret.wrote = {"constr"}
                        /\ ret.objval = NoValue
                        /\ \A i \in DOMAIN ret.gradObj : ret.gradObj[i] = NoValue
        /\ pc[2] = 0 => /\ "objval" \in ret.wrote
                        /\ "gradObj" \notin ret.wrote
                        /\ \A i \in DOMAIN ret.gradObj : ret.gradObj[i] = NoValue
        /\ "gradObj" \in ret.wrote <=> pc[2] > 0
        /\ pc[2] > 0 => /\ "objval" \in ret.wrote
                        /\ \A i \in DOMAIN ret.gradObj : ret.gradObj[i] # NoValue

\* an evaluate in zero mode on an initialized problem with a nonzero slack
C13_Witness ==
  /\ pc[1] = "evaluated"
  /\ pc[2] = 0
  /\ rest.zeta = Zeta
  /\ rest.nCon = 2
  /\ env.xi[env.parent.nVar] # 0
  /\ ret.constr[0] # ParentConstr(env.parent, [i \in 0 .. env.parent.nVar - 1 |-> env.xi[i]], 0)
  /\ ret.objval # NoValue

\* C14: zeta = 1e-3 and rho = 1e3 are fixed constants of a RestorationProblem: every
\* evaluate that computes the objective, also one called before initialize, uses
\* zeta = 1e-3, rho = 1e3 and a diagonal scaling with a value for every variable.
C14_WeightsFixed ==
  (pc[1] = "evaluated" /\ pc[2] >= 0) =>
    /\ rest.zeta = Zeta
    /\ rest.rho = Rho
    /\ rest.diagScale.alloc
    /\ DOMAIN rest.diagScale.data = 0 .. env.parent.nVar - 1

\* C22: after the sparse initialize the Jacobian is column-compressed with
\* parent.nVar + nCon columns: the parent's columns unchanged, column pointers
\* non-decreasing with jacIndCol[parent.nVar] = nnzOrig and jacIndCol[nVar] =
\* nnzOrig + nCon, and in the column of slack k exactly one entry, -1 in row k.
C22_SlackColumns ==
  pc = <<"initialized", FALSE>> =>
    LET pp      == env.parent
        nnzOrig == ParentJacIndCol(pp)[pp.nVar]
        col(j)  == env.jacIndRow.data[env.jacIndCol + j]
    IN  /\ env.jacNz.alloc /\ env.jacIndRow.alloc
        /\ rest.nVar = pp.nVar + pp.nCon
        /\ DOMAIN env.jacNz.data = 0 .. nnzOrig + pp.nCon - 1
        /\ DOMAIN env.jacIndRow.data = 0 .. nnzOrig + pp.nCon + rest.nVar
        /\ \A j \in 0 .. pp.nVar : col(j) = ParentJacIndCol(pp)[j]
        /\ \A q \in 0 .. nnzOrig - 1 :
             /\ env.jacNz.data[q] = ParentJacNz(pp)[q]
             /\ env.jacIndRow.data[q] = ParentJacIndRow(pp)[q]
        /\ \A j \in 0 .. rest.nVar - 1 : col(j) <= col(j + 1)
        /\ col(pp.nVar) = nnzOrig
        /\ col(rest.nVar) = nnzOrig + pp.nCon
        /\ \A k \in 0 .. pp.nCon - 1 :
             /\ col(pp.nVar + k + 1) = col(pp.nVar + k) + 1
             /\ env.jacNz.data[col(pp.nVar + k)] = 0 - 1
             /\ env.jacIndRow.data[col(pp.nVar + k)] = k

\* two slack columns behind a parent column with two entries
C22_Witness ==
  /\ pc = <<"initialized", FALSE>>
  /\ env.parent.nCon = 2
  /\ env.parent.nVar = 1
  /\ env.jacIndCol = 4
  /\ env.jacIndRow.data[env.jacIndCol + 3] = 4

\* C23: the constructor leaves nVar = parent.nVar + parent.nCon, nCon = parent.nCon,
\* nBlocks = parent.nBlocks + parent.nCon, a boundary array of length nBlocks+1 that
\* starts at 0, increases strictly, ends at nVar, repeats the parent's boundaries
\* and gives every slack a block of size 1; bl and bu of length nVar + nCon with
\* the parent's variable and constraint bounds and every slack unbounded.
C23_RestorationShape ==
  pc[1] \in {"constructed", "initialized", "evaluated", "moved"} =>
    LET pp == env.parent
    IN  /\ rest.nVar = pp.nVar + pp.nCon
        /\ rest.nCon = pp.nCon
        /\ rest.nBlocks = pp.nBlocks + pp.nCon
        /\ DOMAIN rest.blockIdx = 0 .. rest.nBlocks
        /\ rest.blockIdx[0] = 0
        /\ \A k \in 1 .. rest.nBlocks : rest.blockIdx[k - 1] < rest.blockIdx[k]
        /\ rest.blockIdx[rest.nBlocks] = rest.nVar
        /\ \A k \in 0 .. pp.nBlocks : rest.blockIdx[k] = pp.blockIdx[k]
        /\ \A k \in 1 .. pp.nCon :
             /\ rest.blockIdx[pp.nBlocks + k - 1] = pp.nVar + k - 1
             /\ rest.blockIdx[pp.nBlocks + k] = pp.nVar + k
        /\ DOMAIN rest.bl = 0 .. rest.nVar + rest.nCon - 1
        /\ DOMAIN rest.bu = 0 .. rest.nVar + rest.nCon - 1
        /\ \A i \in 0 .. pp.nVar - 1 : rest.bl[i] = pp.bl[i] /\ rest.bu[i] = pp.bu[i]
        /\ \A k \in 0 .. pp.nCon - 1 :
             /\ rest.bl[rest.nVar + k] = pp.bl[pp.nVar + k]
             /\ rest.bu[rest.nVar + k] = pp.bu[pp.nVar + k]
        /\ \A i \in pp.nVar .. rest.nVar - 1 :
             rest.bl[i] = 0 - Huge /\ rest.bu[i] = Huge

\* a parent with two blocks and a constraint: three blocks, the slack alone in the last
C23_Witness ==
  /\ pc = <<"constructed">>
  /\ env.parent.nBlocks = 2
  /\ env.parent.nCon = 1
  /\ rest.nBlocks = 3
  /\ rest.blockIdx = (0 :> 0) @@ (1 :> 1) @@ (2 :> 2) @@ (3 :> 3)

\* C26: for an initialized problem, the same xi and positive mode, the dense
\* evaluate returns the objective value, the residuals and every gradient component
\* of the sparse evaluate, and both read xi only at 0 .. nVar-1.
C26_DenseEqualsSparse ==
  (pc = <<"evaluated", 1, TRUE>> /\ rest.zeta # NoValue) =>
    \A g \in Garbage :
      LET sparse == RestorationEvaluate(rest, env.parent, env.xi, NoOutputs(rest), 1, FALSE, g)
      IN  /\ ret.objval = sparse.objval
          /\ ret.constr = sparse.constr
          /\ ret.gradObj = sparse.gradObj
          /\ ~ret.ub /\ ~sparse.ub

\* C27: in positive mode on an initialized problem the gradient is the gradient of
\* the objective of the same call: zeta * diagScale_i * (x_i - xRef_i) for the
\* original variable i and rho * slack_k for the slack k.
C27_GradientOfObjective ==
  (pc[1] = "evaluated" /\ pc[2] > 0 /\ rest.zeta # NoValue) =>
    LET pp == env.parent
    IN  /\ \A i \in 0 .. pp.nVar - 1 :
             ret.gradObj[i] = FMul(FMul(Zeta, rest.diagScale.data[i]),
                                   FromInt(env.xi[i] - rest.xiRef[i]))
        /\ \A k \in 0 .. pp.nCon - 1 :
             ret.gradObj[pp.nVar + k] = FMul(Rho, FromInt(env.xi[pp.nVar + k]))

\* C28: whenever the parent's evaluate reports a nonzero status, the status that
\* RestorationProblem::evaluate returns is nonzero, in every mode and both variants.
C28_FailurePropagates ==
  (pc[1] = "evaluated" /\ env.parent.info # 0) => ret.info # 0

(***************************************************************************)
(* The constraint violation norms.  A vector is a function on 0 .. M - 1;  *)
(* the doubles are integers here, so sums and squares are exact, and a     *)
(* square root is kept as its radicand.                                    *)
(***************************************************************************)
MaxNormVar == 2
MaxNormCon == 1
\* the elements of xi and constr, and what a read past the end of a vector gives
NormVals == {0 - 2, 0, 2}
NormGarbage == {0 - 3, 0}

\* the caller's vectors: bl and bu hold the bounds of the variables, then those of
\* the constraints
NormInputs ==
  UNION { [xi : [0 .. nv - 1 -> NormVals], constr : [0 .. nc - 1 -> NormVals],
           bl : [0 .. nv + nc - 1 -> {0 - 1, 0}], bu : [0 .. nv + nc - 1 -> {0, 1}]] :
          <<nv, nc>> \in (0 .. MaxNormVar) \X (0 .. MaxNormCon) }

\* x( i ) of a vector x, Matrix::operator() does not test the index: a read past the
\* end gives g
NormRead(x, i, g) == IF i \in DOMAIN x THEN x[i] ELSE g

\* the branches of the l1 loops: the amount by which v leaves [lo, hi]
Excess(v, lo, hi) == IF v > hi THEN v - hi ELSE IF v < lo THEN lo - v ELSE 0

\* norm after the loop body ran for the indices below n
RECURSIVE NormLoop(_, _)
NormLoop(term, n) == IF n = 0 THEN 0 ELSE NormLoop(term, n - 1) + term[n - 1]

\* the elements the two loops of a norm read: xi( i ), bu( i ) for i < nVar and
\* constr( i ), bu( nVar+i ) for i < constr.M(); bl at the same index as bu, always
\* (both) or only when the test of bu fails (the else if)
LoopReads(in, both) ==
  LET nVar == Cardinality(DOMAIN in.xi)
      nCon == Cardinality(DOMAIN in.constr)
  IN  [xi     |-> 0 .. nVar - 1,
       constr |-> 0 .. nCon - 1,
       bu     |-> 0 .. nVar + nCon - 1,
       bl     |-> {i \in 0 .. nVar - 1 : both \/ ~(in.xi[i] > in.bu[i])}
                    \cup {nVar + i : i \in {k \in 0 .. nCon - 1 :
                                               both \/ ~(in.constr[k] > in.bu[nVar + k])}}]

\* l1ConstraintNorm( xi, constr, bu, bl, weights ): 0.0 after the message when the
\* weights are too few
L1WeightedNorm(in, weights) ==
  LET nVar == Cardinality(DOMAIN in.xi)
      nCon == Cardinality(DOMAIN in.constr)
      s == NormLoop([i \in 0 .. nVar - 1 |->
                       Fabs(weights[i]) * Excess(in.xi[i], in.bl[i], in.bu[i])], nVar)
      c == NormLoop([i \in 0 .. nCon - 1 |->
                       Fabs(weights[nVar + i])
                         * Excess(in.constr[i], in.bl[nVar + i], in.bu[nVar + i])], nCon)
      none == [xi |-> {}, constr |-> {}, bu |-> {}, bl |-> {}]
  IN  IF Cardinality(DOMAIN weights) < nCon + nVar
        THEN [fn |-> "l1w", norm |-> 0, past |-> {}, reads |-> none,
              out |-> <<"Weight vector too short!">>]
        ELSE [fn |-> "l1w", norm |-> s + c, past |-> {}, reads |-> LoopReads(in, FALSE),
              out |-> <<>>]

\* norm after the first loop of lInfConstraintNorm ran for the indices below n
RECURSIVE LInfSimple(_, _)
LInfSimple(in, n) ==
  IF n = 0 THEN 0
  ELSE LET norm == LInfSimple(in, n - 1)
           i == n - 1
       IN  IF in.xi[i] - in.bu[i] > norm THEN in.xi[i] - in.bu[i]
           ELSE IF in.bl[i] - in.xi[i] > norm THEN in.bl[i] - in.xi[i]
           ELSE norm

\* norm after the second loop of lInfConstraintNorm ran for the indices below n
RECURSIVE LInfConstr(_, _, _)
LInfConstr(in, start, n) ==
  IF n = 0 THEN start
  ELSE LET norm == LInfConstr(in, start, n - 1)
           nVar == Cardinality(DOMAIN in.xi)
           i    == n - 1
           n1   == IF in.constr[i] - in.bu[nVar + i] > norm
                     THEN in.constr[i] - in.bu[nVar + i] ELSE norm
       IN  IF in.bl[nVar + i] - in.constr[i] > n1 THEN in.bl[nVar + i] - in.constr[i] ELSE n1

\* lInfConstraintNorm( xi, constr, bu, bl )
LInfConstraintNorm(in) ==
  LET nVar == Cardinality(DOMAIN in.xi)
      nCon == Cardinality(DOMAIN in.constr)
      all  == LoopReads(in, TRUE)
  IN  [fn |-> "linf", norm |-> LInfConstr(in, LInfSimple(in, nVar), nCon), past |-> {},
       reads |-> [all EXCEPT !.bl = {i \in 0 .. nVar - 1 : ~(in.xi[i] - in.bu[i] >
                                                              LInfSimple(in, i))}
                                     \cup {nVar + i : i \in 0 .. nCon - 1}]]

\* l1ConstraintNorm( xi, constr, bu, bl )
L1ConstraintNorm(in) ==
  LET nVar == Cardinality(DOMAIN in.xi)
      nCon == Cardinality(DOMAIN in.constr)
      s == NormLoop([i \in 0 .. nVar - 1 |-> Excess(in.xi[i], in.bl[i], in.bu[i])], nVar)
      c == NormLoop([i \in 0 .. nCon - 1 |->
                       Excess(in.constr[i], in.bl[nVar + i], in.bu[nVar + i])], nCon)
  IN  [fn |-> "l1", norm |-> s + c, past |-> {}, reads |-> LoopReads(in, FALSE)]

\* the statement after the first loop of l2ConstraintNorm, taken into the loop
\* with an else in front of it and the squares of the second loop
L2SimpleBounds_InLoop(in, gx, gb) ==
  LET nVar == Cardinality(DOMAIN in.xi)
  IN  [norm |-> NormLoop([i \in 0 .. nVar - 1 |->
                            Excess(in.xi[i], in.bl[i], in.bu[i]) ^ 2], nVar),
       past |-> {},
       xi   |-> 0 .. nVar - 1,
       bl   |-> {i \in 0 .. nVar - 1 : ~(in.xi[i] > in.bu[i])}]

\* l2ConstraintNorm, lines 300-304: the loop body is the first if alone; the second
\* if runs once after the loop, with i = nVar
L2SimpleBounds(in, gx, gb) ==
  LET nVar == Cardinality(DOMAIN in.xi)
      loop == NormLoop([i \in 0 .. nVar - 1 |->
                          IF in.xi[i] > in.bu[i] THEN in.xi[i] - in.bu[i] ELSE 0], nVar)
      xiI  == NormRead(in.xi, nVar, gx)
      blI  == NormRead(in.bl, nVar, gb)
  IN  [norm |-> loop + (IF xiI < blI THEN blI - xiI ELSE 0),
       past |-> {v \in {"xi", "bl"} : nVar \notin DOMAIN in[v]},
       xi   |-> 0 .. nVar,
       bl   |-> {nVar}]

\* l2ConstraintNorm( xi, constr, bu, bl ): sqrt( norm ) is kept as norm
L2ConstraintNorm(in, gx, gb) ==
  LET nVar == Cardinality(DOMAIN in.xi)
      nCon == Cardinality(DOMAIN in.constr)
      s == L2SimpleBounds(in, gx, gb)
      c == NormLoop([i \in 0 .. nCon - 1 |->
                       Excess(in.constr[i], in.bl[nVar + i], in.bu[nVar + i]) ^ 2], nCon)
      r == LoopReads(in, FALSE)
  IN  [fn |-> "l2", norm |-> s.norm + c, past |-> s.past,
       reads |-> [r EXCEPT !.xi = s.xi,
                           !.bl = {nVar + i : i \in {k \in 0 .. nCon - 1 :
                                      ~(in.constr[k] > in.bu[nVar + k])}} \cup s.bl]]

\* a caller holds a point, its constraint values and the bounds
InitNorm ==
  /\ env \in {in \in NormInputs : \A i \in DOMAIN in.bl : in.bl[i] <= in.bu[i]}
  /\ ret = [fn |-> "none", norm |-> 0, past |-> {},
            reads |-> [xi |-> {}, constr |-> {}, bu |-> {}, bl |-> {}]]
  /\ pc = <<"idle">>
  /\ prob = 0 /\ param = 0 /\ iter = 0 /\ rest = 0 /\ ls = 0
  /\ heap = <<>> /\ mats = <<>> /\ out = <<>> /\ ub = FALSE
  /\ view = <<>> /\ reviewed = FALSE

\* norm = l1ConstraintNorm( xi, constr, bu, bl )
DoL1 ==
  /\ pc = <<"idle">>
  /\ ret' = L1ConstraintNorm(env)
  /\ pc' = <<"returned">>
  /\ UNCHANGED <<matVars, prob, param, iter, env, rest, ls>>

\* norm = l2ConstraintNorm( xi, constr, bu, bl ); a read past the end of a vector
\* is undefined: it gives some value
DoL2 ==
  /\ pc = <<"idle">>
  /\ \E gx \in NormGarbage, gb \in NormGarbage :
       /\ ret' = L2ConstraintNorm(env, gx, gb)
       /\ ub' = (ret'.past # {})
  /\ pc' = <<"returned">>
  /\ UNCHANGED <<heap, mats, out, view, reviewed, prob, param, iter, env, rest, ls>>

\* norm = l1ConstraintNorm( xi, constr, bu, bl, weights ), with weights enough or
\* one too few
DoL1Weighted(weights) ==
  /\ pc = <<"idle">>
  /\ Cardinality(DOMAIN weights) + 1 >= Cardinality(DOMAIN env.bl)
  /\ Cardinality(DOMAIN weights) <= Cardinality(DOMAIN env.bl)
  /\ LET r == L1WeightedNorm(env, weights)
     IN  /\ ret' = [fn |-> r.fn, norm |-> r.norm, past |-> r.past, reads |-> r.reads]
         /\ out' = out \o r.out
  /\ pc' = <<"returned">>
  /\ UNCHANGED <<heap, mats, ub, view, reviewed, prob, param, iter, env, rest, ls>>

\* norm = lInfConstraintNorm( xi, constr, bu, bl )
DoLInf ==
  /\ pc = <<"idle">>
  /\ ret' = LInfConstraintNorm(env)
  /\ pc' = <<"returned">>
  /\ UNCHANGED <<matVars, prob, param, iter, env, rest, ls>>

NextNorm ==
  \/ DoL1
  \/ DoL2
  \/ \E n \in 0 .. MaxNormVar + MaxNormCon :
       \E weights \in [0 .. n - 1 -> {0 - 1, 2}] : DoL1Weighted(weights)
  \/ DoLInf

SpecNorm == InitNorm /\ [][NextNorm]_vars

\* the sum of the squared amounts by which the variables and the constraints leave
\* their bounds
SquaredViolation(in) ==
  LET nVar == Cardinality(DOMAIN in.xi)
      nCon == Cardinality(DOMAIN in.constr)
  IN  NormLoop([i \in 0 .. nVar + nCon - 1 |->
                  IF i < nVar THEN Excess(in.xi[i], in.bl[i], in.bu[i]) ^ 2
                  ELSE Excess(in.constr[i - nVar], in.bl[i], in.bu[i]) ^ 2], nVar + nCon)

\* C20: l2ConstraintNorm returns the square root of the sum of the squared bound
\* violations of the variables and of the constraints; the result is zero exactly
\* when all simple bounds and all constraint bounds are satisfied.
C20_EuclideanNorm ==
  (pc = <<"returned">> /\ ret.fn = "l2") =>
    /\ ret.norm = SquaredViolation(env)
    /\ ret.norm = 0 <=>
         /\ \A i \in DOMAIN env.xi : env.bl[i] <= env.xi[i] /\ env.xi[i] <= env.bu[i]
         /\ \A i \in DOMAIN env.constr :
              LET k == Cardinality(DOMAIN env.xi) + i
              IN  env.bl[k] <= env.constr[i] /\ env.constr[i] <= env.bu[k]

\* C21: every constraint-violation norm reads xi only at 0 .. nVar-1, constr only
\* at 0 .. nCon-1, and bl and bu only at 0 .. nVar+nCon-1.
C21_ReadsInRange ==
  pc = <<"returned">> =>
    /\ ret.reads.xi \subseteq DOMAIN env.xi
    /\ ret.reads.constr \subseteq DOMAIN env.constr
    /\ ret.reads.bl \subseteq DOMAIN env.bl
    /\ ret.reads.bu \subseteq DOMAIN env.bu

(***************************************************************************)
(* The filter line search.  A filter entry is a pair <<violation,          *)
(* objective>>, as the std::pair of the filter of SQPiterate; violations   *)
(* and objective values are small naturals.  ls is the controller: its     *)
(* state, the filter, the current pair, the last trial pair, the number of *)
(* second-order corrections made for the current step, and where the last  *)
(* transition came from.                                                   *)
(***************************************************************************)
MaxViolation == 2
MaxObj == 2
MaxSOC == 2

FilterPairs == (0 .. MaxViolation) \X (0 .. MaxObj)

\* A dominates B
Dominates(A, B) ==
  /\ A[1] <= B[1]
  /\ A[2] <= B[2]
  /\ A[1] < B[1] \/ A[2] < B[2]

\* an insertion that prunes nothing
AugmentFilter_NoPrune(filter, E) == filter \cup {E}

\* the filter after the insertion of E: the entries E dominates are pruned
AugmentFilter(filter, E) == {E} \cup {F \in filter : ~Dominates(E, F)}

\* the sufficient-decrease condition: below the small threshold of the violation
\* the objective must decrease, otherwise the violation or the objective
SufficientDecrease(pm, cur, trial) ==
  IF cur[1] < pm.thetaMin THEN trial[2] < cur[2]
  ELSE trial[1] < cur[1] \/ trial[2] < cur[2]

\* the acceptance test of a trial point
Acceptable(pm, filter, cur, trial) ==
  /\ \A E \in filter : ~Dominates(E, trial)
  /\ SufficientDecrease(pm, cur, trial)

\* a controller that goes to RESTORATION whenever the corrections are exhausted
AfterRejection_NoThreshold(pm, l) ==
  IF l.nSOCS < pm.maxSOCiter THEN [l EXCEPT !.state = "SOC"]
  ELSE [l EXCEPT !.state = "RESTORATION"]

\* after a rejected trial point: another second-order correction while fewer than
\* maxSOCiter were made; then RESTORATION if the violation exceeds thetaMax, and
\* otherwise NORMAL with a new trial point
AfterRejection(pm, l) ==
  IF l.nSOCS < pm.maxSOCiter THEN [l EXCEPT !.state = "SOC"]
  ELSE IF l.trial[1] > pm.thetaMax THEN [l EXCEPT !.state = "RESTORATION"]
  ELSE [l EXCEPT !.state = "NORMAL", !.nSOCS = 0]

\* the controller after the trial point was evaluated
LineSearchStep(pm, l, trial) ==
  IF Acceptable(pm, l.filter, l.cur, trial)
    THEN [l EXCEPT !.state = "NORMAL", !.from = l.state, !.trial = trial,
                   !.cur = trial, !.nSOCS = 0,
                   !.filter = AugmentFilter(l.filter, trial),
                   !.pruned = Cardinality({F \in l.filter : Dominates(trial, F)})]
    ELSE AfterRejection(pm, [l EXCEPT !.from = l.state, !.trial = trial, !.pruned = 0])

\* the options of a solve: the user sets maxSOCiter, thetaMax, thetaMin and inf
LSOptions ==
  { [maxSOCiter |-> k, thetaMax |-> 1, thetaMin |-> 1, inf |-> MaxObj + 1,
     restoreFeas |-> SQPoptionsCtor.restoreFeas, globalization |-> SQPoptionsCtor.globalization] :
      k \in 0 .. MaxSOC }

\* SQPiterate::allocAlg and SQPiterate::initIterate: an empty filter, nSOCS = 0,
\* cNorm = thetaMax, obj = inf
InitLS ==
  /\ param \in LSOptions
  /\ ls = [state |-> "NORMAL", from |-> "NORMAL", filter |-> {},
           cur |-> <<param.thetaMax, param.inf>>, trial |-> <<param.thetaMax, param.inf>>,
           restored |-> <<param.thetaMax, param.inf>>, nSOCS |-> 0, pruned |-> 0]
  /\ pc = <<"linesearch">>
  /\ prob = 0 /\ iter = 0 /\ rest = 0 /\ env = 0 /\ ret = 0
  /\ heap = <<>> /\ mats = <<>> /\ out = <<>> /\ ub = FALSE
  /\ view = <<>> /\ reviewed = FALSE

\* NORMAL: a trial point along the QP direction is evaluated
TryStep(trial) ==
  /\ ls.state = "NORMAL"
  /\ ls' = LineSearchStep(param, ls, trial)
  /\ UNCHANGED <<matVars, iterVars, env, ret, rest>>

\* SECOND-ORDER-CORRECTION: one more correction sub-step is evaluated
Correct(trial) ==
  /\ ls.state = "SOC"
  /\ ls' = LineSearchStep(param, [ls EXCEPT !.nSOCS = @ + 1], trial)
  /\ UNCHANGED <<matVars, iterVars, env, ret, rest>>

\* RESTORATION ends with a point the filter accepts
RestorationSucceeds(restored) ==
  /\ ls.state = "RESTORATION"
  /\ \A E \in ls.filter : ~Dominates(E, restored)
  /\ ls' = [ls EXCEPT !.state = "NORMAL", !.from = "RESTORATION", !.cur = restored,
                      !.restored = restored, !.nSOCS = 0, !.pruned = 0]
  /\ UNCHANGED <<matVars, iterVars, env, ret, rest>>

\* RESTORATION fails: the solve ends
RestorationFails ==
  /\ ls.state = "RESTORATION"
  /\ ls' = [ls EXCEPT !.state = "FAILED", !.from = "RESTORATION"]
  /\ UNCHANGED <<matVars, iterVars, env, ret, rest>>

NextLS ==
  \/ \E trial \in FilterPairs : TryStep(trial)
  \/ \E trial \in FilterPairs : Correct(trial)
  \/ \E restored \in FilterPairs : RestorationSucceeds(restored)
  \/ RestorationFails

SpecLS == InitLS /\ [][NextLS]_vars

\* C15: no retained pair of the filter dominates another retained pair, and every
\* insertion removes all the entries the inserted pair dominates.
C15_FilterAntichain ==
  /\ [](\A A \in ls.filter : \A B \in ls.filter : ~Dominates(A, B))
  /\ [][\A E \in ls'.filter \ ls.filter :
          \A F \in ls.filter : Dominates(E, F) => F \notin ls'.filter]_vars

\* an insertion pruned an entry and left two
C15_Witness ==
  /\ ls.state = "NORMAL"
  /\ ls.pruned >= 1
  /\ Cardinality(ls.filter) = 2
  /\ ls.cur \in ls.filter

====
